---- MODULE Spec2Model ----
(***************************************************************************)
(* Catalog resolution and content retrieval of the CernVM-FS client:       *)
(* Catalog::find_nested_for_path, Repository's catalog descent and the     *)
(* resident catalog map, Fetcher/Cache retrieval, ChunkedFile read/seek.   *)
(*                                                                         *)
(* Strings are tuples of one-character strings.  The character "E" stands  *)
(* for one non-ASCII character whose UTF-8 encoding takes two bytes; every *)
(* other character takes one byte.                                         *)
(***************************************************************************)
EXTENDS Integers, Sequences, FiniteSets, TLC

VARIABLES
    host,       \* state of the host filesystem seen by fs::canonicalize
    needle,     \* find_nested_for_path: the query path
    nested,     \* find_nested_for_path: rows of the nested_catalogs table
    found,      \* find_nested_for_path: the call's outcome
    server,     \* what the repository server holds under each name
    cache,      \* files of the cache directory: name -> content
    data_dir,   \* <cache root>/data and its subdirectories 00..ff exist
    ret,        \* the last Fetcher/Cache call: arguments, outcome, GETs issued
    succeeded,  \* <<name, path>> of retrieve_file calls that returned Ok since the last evict
    cf,         \* the ChunkedFile: size, chunks, position
    io,         \* the last ChunkedFile call: arguments and outcome
    overflow_checks, \* the build panics on integer overflow (debug) or wraps (release)
    images,     \* the SQLite databases of the repository: content id -> tables
    opened_catalogs, \* Repository.opened_catalogs: hash -> Catalog
    tag,        \* Repository.tag, the current RevisionTag
    call,       \* the Repository call in progress and its position in the descent
    out,        \* the last completed Repository call: arguments and outcome
    rcs,        \* the retrieve_catalog calls of the last step, in order
    file,       \* the bytes of a root file handed to RootFile::new
    root_file,  \* the outcome of the last RootFile::new
    manifest,   \* Repository.manifest
    fqrn,       \* Repository.fqrn
    built,      \* the outcome of the last Repository::new
    tree,       \* the cache root on disk: data and the entries below it
    cres,       \* the last Cache call on the tree: operation and outcome
    poisoned,   \* the locks of the CernvmFileSystem that are poisoned
    opened_files, \* CernvmFileSystem.opened_files: the paths that are open
    fsret,      \* the last CernvmFileSystem operation: arguments and outcome
    given,      \* the arguments of a function called on its own
    answer,     \* what the function called on given returned
    worker,     \* the threads of the FuseMT pool: the request each serves and where it is
    guard,      \* the thread that holds the write guard of each RwLock, 0 for none
    fh          \* the file behind the open path: its position, and the reads issued

vars == <<host, needle, nested, found, server, cache, data_dir, ret, succeeded,
          cf, io, overflow_checks, images, opened_catalogs, tag, call, out, rcs,
          file, root_file, manifest, fqrn, built, tree, cres, poisoned, opened_files,
          fsret, given, answer, worker, guard, fh>>

repoVars == <<images, opened_catalogs, tag, call, out, rcs>>

chunkVars == <<cf, io, overflow_checks>>

nestedVars == <<needle, nested, found>>

fetchVars == <<server, cache, data_dir, ret, succeeded>>

rootVars == <<file, root_file>>

bootVars == <<manifest, fqrn, built>>

treeVars == <<tree, cres>>

shimVars == <<poisoned, opened_files, fsret>>

pureVars == <<given, answer>>

threadVars == <<worker, guard, fh>>

restVars == <<rootVars, bootVars, treeVars, shimVars, pureVars, threadVars>>

\* ------------------------------------------------------------------ bounds
MaxPathLen == 3      \* longest query path of the nested-reference search
MaxRootLen == 2      \* longest root_path of a nested_catalogs row
MaxNested  == 2      \* most rows of one nested_catalogs table
WordBits   == 4      \* width of u64, i64 and usize, scaled down
MaxFileSize == 3     \* largest size of a chunked file
MaxBuf     == 3      \* longest buffer handed to ChunkedFile::read
MaxRepoNested == 1   \* most rows of a nested_catalogs table of the repository
MaxDescent == 3      \* most iterations of one catalog descent that are followed
MaxBodyLen == 3      \* most bytes of the body of a root file

\* ----------------------------------------------------------- strings, paths
Chars == {"/", "a", "E"}

ByteLen(c) == IF c = "E" THEN 2 ELSE 1

RECURSIVE StrByteLen(_)
\* str::len(): the length of a string in bytes.
StrByteLen(s) == IF s = <<>> THEN 0 ELSE ByteLen(Head(s)) + StrByteLen(Tail(s))

RECURSIVE SeqsUpTo(_, _)
SeqsUpTo(S, n) ==
    IF n = 0 THEN {<<>>}
    ELSE LET shorter == SeqsUpTo(S, n - 1)
         IN  shorter \cup {Append(s, c) : s \in {t \in shorter : Len(t) = n - 1}, c \in S}

RECURSIVE Segments(_, _)
\* The non-empty '/'-separated pieces of s; cur is the piece being read.
Segments(s, cur) ==
    IF s = <<>> THEN (IF cur = <<>> THEN <<>> ELSE <<cur>>)
    ELSE IF Head(s) = "/"
         THEN (IF cur = <<>> THEN <<>> ELSE <<cur>>) \o Segments(Tail(s), <<>>)
         ELSE Segments(Tail(s), Append(cur, Head(s)))

\* Path::components() on Unix for paths without "." and "..": a RootDir
\* component for a leading '/', then the normal components; repeated and
\* trailing separators do not produce components.
Components(s) ==
    [has_root |-> (s # <<>> /\ Head(s) = "/"), normal |-> Segments(s, <<>>)]

\* Path::starts_with(base): component-wise prefix.
PathStartsWith(p, base) ==
    LET cp == Components(p)
        cb == Components(base)
    IN  /\ cb.has_root => cp.has_root
        /\ (cp.has_root /\ ~cb.has_root) => cb.normal = <<>>
        /\ Len(cb.normal) <= Len(cp.normal)
        /\ \A i \in 1..Len(cb.normal) : cp.normal[i] = cb.normal[i]

\* ------------------------------------------------------------ host filesystem
\* What fs::canonicalize sees: the paths that exist on the host (as component
\* lists, since "/a", "//a" and "/a/" name the same file) and the absolute,
\* symlink-free path each resolves to.  Relative paths name nothing in the
\* working directory of the process.
HostEntry(p, q) == [comps |-> Components(p), canon |-> q]

HostStates ==
    { {},
      {HostEntry(<<"/", "a">>, <<"/", "a">>)},
      {HostEntry(<<"/", "a">>, <<"/", "E">>)} }

\* canonicalize_path: the host's canonical form of the path when the path
\* exists on the host, the path unchanged when canonicalization fails.
canonicalize_path(h, path) ==
    IF \E e \in h : e.comps = Components(path)
    THEN (CHOOSE e \in h : e.comps = Components(path)).canon
    ELSE path

\* ----------------------------------------------------------------- hashes
HRoot == <<"a", "a", "0">>
H1 == <<"a", "a", "1">>
H2 == <<"b", "b", "2">>

\* ---------------------------------------------------------------- Catalog
CatalogReference(root_path, catalog_hash) ==
    [root_path |-> root_path, catalog_hash |-> catalog_hash]

NoRef == CatalogReference(<<>>, <<>>)

\* found before find_nested_for_path has been called.
Pending == [kind |-> "Pending", ref |-> NoRef]

\* Catalog::path_sanitized.  The lengths are byte lengths, the index into
\* the collected Vec<char> is a character index: the index is out of bounds
\* (a panic) when the needle has no more characters than catalog_path has
\* bytes.
path_sanitized(needle_path, catalog_path) ==
    LET nl == StrByteLen(needle_path)
        cl == StrByteLen(catalog_path)
    IN  IF nl = cl THEN "true"
        ELSE IF nl > cl
             THEN IF cl >= Len(needle_path) THEN "panic"
                  ELSE IF needle_path[cl + 1] = "/" THEN "true" ELSE "false"
             ELSE "false"

RECURSIVE FindNestedLoop(_, _, _, _, _)
\* The for loop of find_nested_for_path over the rows of list_nested().
FindNestedLoop(refs, needle_path, real_needle_path, best_match, best_match_score) ==
    IF refs = <<>> THEN [kind |-> IF best_match = NoRef THEN "None" ELSE "Some",
                         ref |-> best_match]
    ELSE LET nested_catalog == Head(refs)
             sanitized == path_sanitized(needle_path, nested_catalog.root_path)
         IN  IF /\ PathStartsWith(real_needle_path, nested_catalog.root_path)
                /\ StrByteLen(nested_catalog.root_path) > best_match_score
             THEN IF sanitized = "panic" THEN [kind |-> "Panic", ref |-> NoRef]
                  ELSE IF sanitized = "true"
                       THEN FindNestedLoop(Tail(refs), needle_path, real_needle_path,
                                           nested_catalog,
                                           StrByteLen(nested_catalog.root_path))
                       ELSE FindNestedLoop(Tail(refs), needle_path, real_needle_path,
                                           best_match, best_match_score)
             ELSE FindNestedLoop(Tail(refs), needle_path, real_needle_path,
                                 best_match, best_match_score)

\* Catalog::find_nested_for_path on a catalog whose nested_catalogs table
\* holds the rows refs, on a host in state h.
find_nested_for_path(refs, needle_path, h) ==
    FindNestedLoop(refs, needle_path, canonicalize_path(h, needle_path), NoRef, 0)

\* ------------------------------------------------------------ Cache, Fetcher
MANIFEST_NAME == <<".cvmfspublished">>

CATALOG_ROOT_PREFIX == <<"C">>

\* compose_object_path: data/<first two characters>/<rest><suffix>.
compose_object_path(object_hash, hash_suffix) ==
    <<"data", SubSeq(object_hash, 1, 2),
      SubSeq(object_hash, 3, Len(object_hash)) \o hash_suffix>>

\* File contents.  A zlib body decompresses to the plain bytes with the same
\* data; complete = FALSE marks a file whose write was cut short.
ZBody(d) == [enc |-> "zlib", data |-> d, complete |-> TRUE]

PlainBody(d) == [enc |-> "plain", data |-> d, complete |-> TRUE]

Truncated(bytes) == [bytes EXCEPT !.complete = FALSE]

NoFile == [enc |-> "absent", data |-> <<>>, complete |-> FALSE]

\* Outcome of reqwest::blocking::get(url) followed by bytes(): a transport
\* error, or the response body whatever the HTTP status is.
NetErr == [status |-> "neterr", body |-> NoFile]

Response(status, body) == [status |-> status, body |-> body]

GetOutcomes(srv, name) == {NetErr, srv[name]}

\* Outcomes of fs::write when it is handed bytes: written in full, failed
\* before the file was created or truncated, failed after part was written.
WriteOutcomes == {"ok", "create_fail", "partial"}

UnderData(name) == Head(name) = "data"

\* The directories Cache::initialize creates, as names relative to the root.
IsDirName(name) == UnderData(name) /\ Len(name) <= 2

\* Cache::add: Path::join(cache_directory, file_name).
CacheAdd(name) == <<"/cache">> \o name

PathExists(c, dd, name) ==
    IF IsDirName(name) THEN dd ELSE c[name] # NoFile

None == <<>>

\* Cache::get: Some(path) when the path exists (file or directory).
CacheGet(c, dd, name) == IF PathExists(c, dd, name) THEN CacheAdd(name) ELSE None

\* fs::write(path, bytes) with outcome w.
FsWrite(c, dd, name, bytes, w) ==
    IF IsDirName(name) \/ (UnderData(name) /\ ~dd) \/ w = "create_fail"
    THEN [cache |-> c, ok |-> FALSE]
    ELSE IF w = "partial"
         THEN [cache |-> [c EXCEPT ![name] = Truncated(bytes)], ok |-> FALSE]
         ELSE [cache |-> [c EXCEPT ![name] = bytes], ok |-> TRUE]

Fetched(c, ok, path, gets) == [cache |-> c, ok |-> ok, path |-> path, gets |-> gets]

GetLog(name, resp) == <<[name |-> name, resp |-> resp]>>

\* Fetcher::decompress after download_content_and_decompress's GET: zlib
\* decoding fails on a body that is not a complete zlib stream, before
\* anything is written.
download_content_and_decompress(c, dd, name, resp, w) ==
    IF resp.status = "neterr" \/ resp.body.enc # "zlib" \/ ~resp.body.complete
    THEN [cache |-> c, ok |-> FALSE]
    ELSE FsWrite(c, dd, name, PlainBody(resp.body.data), w)

\* download_content_and_store that decompresses the body like retrieve_file.
download_content_and_store_inflating(c, dd, name, resp, w) ==
    download_content_and_decompress(c, dd, name, resp, w)

\* Fetcher::download_content_and_store: the body is written verbatim.
download_content_and_store(c, dd, name, resp, w) ==
    IF resp.status = "neterr"
    THEN [cache |-> c, ok |-> FALSE]
    ELSE FsWrite(c, dd, name, resp.body, w)

\* Fetcher::retrieve_file_from_source.
retrieve_file_from_source(c, dd, name, resp, w) ==
    LET stored == download_content_and_decompress(c, dd, name, resp, w)
    IN  IF ~stored.ok THEN Fetched(stored.cache, FALSE, None, GetLog(name, resp))
        ELSE Fetched(stored.cache, CacheGet(stored.cache, dd, name) # None,
                     CacheGet(stored.cache, dd, name), GetLog(name, resp))

\* retrieve_file without the cache lookup: every call goes to the source.
retrieve_file_nocache(c, dd, name, resp, w) ==
    retrieve_file_from_source(c, dd, name, resp, w)

\* Fetcher::retrieve_file.
retrieve_file(c, dd, name, resp, w) ==
    IF CacheGet(c, dd, name) # None
    THEN Fetched(c, TRUE, CacheGet(c, dd, name), <<>>)
    ELSE retrieve_file_from_source(c, dd, name, resp, w)

\* Fetcher::retrieve_raw_file.
retrieve_raw_file(c, dd, name, resp, w) ==
    LET stored == download_content_and_store(c, dd, name, resp, w)
    IN  IF ~stored.ok THEN Fetched(stored.cache, FALSE, None, GetLog(name, resp))
        ELSE Fetched(stored.cache, CacheGet(stored.cache, dd, name) # None,
                     CacheGet(stored.cache, dd, name), GetLog(name, resp))

\* ------------------------------------------------------------ ChunkedFile
\* u64, i64 and usize are WordBits wide.
U64Max == 2 ^ WordBits - 1

I64Max == 2 ^ (WordBits - 1) - 1

I64Min == 0 - 2 ^ (WordBits - 1)

\* The unsigned value with the bit pattern of x.
WrapU(x) == x % (U64Max + 1)

\* `u as i64`: the signed value with the same bit pattern.
AsI64(u) == IF u > I64Max THEN u - (U64Max + 1) ELSE u

Chunk(name, offset, size) == [name |-> name, offset |-> offset, size |-> size]

\* The bytes of the file are 0, 1, 2, ...: the byte at offset g has value g.
ChunkBytes(chunk) == [j \in 1..chunk.size |-> chunk.offset + j - 1]

\* The bytes of the cached object of a chunk; a file cut short holds the
\* first half of them.
FileBytes(content, chunk) ==
    IF content.complete THEN ChunkBytes(chunk)
    ELSE SubSeq(ChunkBytes(chunk), 1, chunk.size \div 2)

Min(a, b) == IF a < b THEN a ELSE b

IoResult(kind, n, buf, position, c, gets) ==
    [kind |-> kind, n |-> n, buf |-> buf, position |-> position, cache |-> c,
     gets |-> gets]

RECURSIVE ChunkSearch(_, _, _, _)
\* chunks.iter().position(|c| c.offset >= position && c.offset + c.size <
\* position), from index i on: the index found, U64Max (usize::MAX) when no
\* chunk satisfies the predicate, -1 when the addition overflows in a build
\* with overflow checks.
ChunkSearch(chunks, i, position, oc) ==
    IF i >= Len(chunks) THEN U64Max
    ELSE LET chunk == chunks[i + 1]
         IN  IF chunk.offset >= position
             THEN IF chunk.offset + chunk.size > U64Max /\ oc THEN 0 - 1
                  ELSE IF WrapU(chunk.offset + chunk.size) < position THEN i
                       ELSE ChunkSearch(chunks, i + 1, position, oc)
             ELSE ChunkSearch(chunks, i + 1, position, oc)

RECURSIVE ReadLoop(_, _, _, _, _, _, _, _, _, _, _)
\* The while loop of ChunkedFile::read and the statements after it.
ReadLoop(f, buf_len, index, currently_read, buf, c, dd, gets, oc, resp_of, w) ==
    IF ~(currently_read < buf_len /\ index < Len(f.chunks))
    THEN IF f.position + currently_read > U64Max /\ oc
         THEN IoResult("Panic", 0, buf, f.position, c, gets)
         ELSE IoResult("Ok", currently_read, buf, WrapU(f.position + currently_read),
                       c, gets)
    ELSE LET chunk == f.chunks[index + 1]
             chunk_position == WrapU(f.position - chunk.offset)
             fetched == retrieve_file(c, dd, chunk.name, resp_of[chunk.name], w)
             bytes == FileBytes(fetched.cache[chunk.name], chunk)
             avail == IF chunk_position >= Len(bytes) THEN 0
                      ELSE Len(bytes) - chunk_position
             chunk_bytes_read == Min(buf_len, avail)
             new_buf == [j \in 1..buf_len |->
                            IF j <= chunk_bytes_read THEN bytes[chunk_position + j]
                            ELSE buf[j]]
         IN  IF f.position < chunk.offset /\ oc
             THEN IoResult("Panic", 0, buf, f.position, c, gets)
             ELSE IF ~fetched.ok
                  THEN IoResult("Unsupported", 0, buf, f.position, fetched.cache,
                                gets \o fetched.gets)
                  ELSE IF chunk_position > I64Max
                       THEN IoResult("NotSeekable", 0, buf, f.position, fetched.cache,
                                     gets \o fetched.gets)
                       ELSE ReadLoop(f, buf_len, index + 1,
                                     currently_read + chunk_bytes_read, new_buf,
                                     fetched.cache, dd, gets \o fetched.gets, oc,
                                     resp_of, w)

\* A buffer byte that no read has written.
Stale == 0 - 1

\* impl Read for ChunkedFile: read(buf) with buf.len() = buf_len.
ChunkedFile_read(f, buf_len, c, dd, oc, resp_of, w) ==
    LET index == ChunkSearch(f.chunks, 0, f.position, oc)
    IN  IF index < 0
        THEN IoResult("Panic", 0, [j \in 1..buf_len |-> Stale], f.position, c, <<>>)
        ELSE ReadLoop(f, buf_len, index, 0, [j \in 1..buf_len |-> Stale], c, dd,
                      <<>>, oc, resp_of, w)

\* A seek that clamps a negative target at 0 instead of failing.
ChunkedFile_seek_clamping(f, whence, p, oc) ==
    LET exact == IF whence = "Start" THEN AsI64(p)
                 ELSE IF whence = "End" THEN AsI64(f.size) + p
                 ELSE AsI64(f.position) + p
        position == AsI64(WrapU(exact))
    IN  IF (exact > I64Max \/ exact < I64Min) /\ oc
        THEN IoResult("Panic", 0, <<>>, f.position, <<>>, <<>>)
        ELSE IF position < 0
             THEN IoResult("Ok", 0, <<>>, 0, <<>>, <<>>)
             ELSE IoResult("Ok", position, <<>>, position, <<>>, <<>>)

\* impl Seek for ChunkedFile.  whence is "Start", "End" or "Current"; the
\* target is computed in i64.
ChunkedFile_seek(f, whence, p, oc) ==
    LET exact == IF whence = "Start" THEN AsI64(p)
                 ELSE IF whence = "End" THEN AsI64(f.size) + p
                 ELSE AsI64(f.position) + p
        position == AsI64(WrapU(exact))
    IN  IF (exact > I64Max \/ exact < I64Min) /\ oc
        THEN IoResult("Panic", 0, <<>>, f.position, <<>>, <<>>)
        ELSE IF position < 0
             THEN IoResult("UnexpectedEof", 0, <<>>, f.position, <<>>, <<>>)
             ELSE IoResult("Ok", position, <<>>, position, <<>>, <<>>)

\* ------------------------------------------------------------- Repository
\* What an operation works on besides the resident map: the cache directory,
\* the server, the databases, the host filesystem and, in net, whether the
\* server answers during this step and how fs::write ends.
World(c, net) ==
    [cache |-> c, dd |-> data_dir, srv |-> server, imgs |-> images, host |-> host,
     net |-> net]

\* What the network does during one call: the server answers or the request
\* fails.  The file system accepts the writes.
NetChoices == {[up |-> u, w |-> "ok"] : u \in BOOLEAN}

\* Repository::retrieve_object_with_suffix.
retrieve_object_with_suffix(wd, object_hash, hash_suffix) ==
    LET name == compose_object_path(object_hash, hash_suffix)
    IN  retrieve_file(wd.cache, wd.dd, name,
                      IF wd.net.up THEN wd.srv[name] ELSE NetErr, wd.net.w)

\* Option<String>
Some(value) == [some |-> TRUE, value |-> value]

Absent == [some |-> FALSE, value |-> <<>>]

\* The bits of Flags that the operations test.
Flags_Directory == 1

Flags_NestedCatalogMountpoint == 2

Flags_File == 4

Flags_Link == 8

Flags_NestedCatalogRoot == 32

Flags_ContentHashTypes == 1792

\* flags & mask for a mask of consecutive bits, shifted down to bit 0.
RECURSIVE TrailingZeros(_)
TrailingZeros(mask) == IF mask % 2 = 1 THEN 0 ELSE 1 + TrailingZeros(mask \div 2)

RECURSIVE Pow2(_)
Pow2(n) == IF n = 0 THEN 1 ELSE 2 * Pow2(n - 1)

MaskedBits(flags, mask) ==
    LET low == Pow2(TrailingZeros(mask))
    IN  (flags \div low) % ((mask \div low) + 1)

\* impl From<u32> for ContentHashTypes.
ContentHashTypes_from(value) ==
    IF value = 1 THEN "Sha1"
    ELSE IF value = 2 THEN "Ripemd160"
    ELSE IF value = 3 THEN "UpperBound"
    ELSE "Unknown"

\* read_content_hash_type that does not add 1 to the shifted bits.
read_content_hash_type_zero_based(flags) ==
    ContentHashTypes_from(MaskedBits(flags, Flags_ContentHashTypes))

\* DirectoryEntry::read_content_hash_type.
read_content_hash_type(flags) ==
    ContentHashTypes_from(MaskedBits(flags, Flags_ContentHashTypes) + 1)

\* ContentHashTypes::hash_suffix.
hash_suffix(obj) ==
    IF obj = "Ripemd160" THEN <<"-", "r", "m", "d", "1", "6", "0">> ELSE <<>>

\* A row of the chunks table.
ChunkRow(offset, size, hash) == [offset |-> offset, size |-> size, hash |-> hash]

\* A row of the catalog table as far as the operations read it, with the
\* rows of the chunks table that carry its md5path: the flags, the hash
\* column (NULL or a blob), the size and the path whose hash is the parent key.
Row(flags, hash, size, parent, chunk_rows) ==
    [flags |-> flags, hash |-> hash, size |-> size, parent |-> parent,
     chunk_rows |-> chunk_rows]

\* The row of a directory or of a file that has one object and SHA-1 hashes.
Entry(kind, content_hash, parent) ==
    Row(IF kind = "dir" THEN Flags_Directory ELSE IF kind = "file" THEN Flags_File ELSE 0,
        IF content_hash = <<>> THEN Absent ELSE Some(content_hash), 0, parent, <<>>)

\* DirectoryEntry::new: the entry of a row, without chunks.
DirectoryEntry_new(row) ==
    [content_hash |-> row.hash, flags |-> row.flags, size |-> row.size,
     parent |-> row.parent, content_hash_type |-> read_content_hash_type(row.flags),
     chunks |-> <<>>]

\* ORDER BY offset ASC of READ_CHUNK: the rows by ascending offset, rows of
\* equal offset in table order.
RECURSIVE InsertByOffset(_, _)
InsertByOffset(sorted, row) ==
    IF sorted = <<>> THEN <<row>>
    ELSE IF row.offset < Head(sorted).offset THEN <<row>> \o sorted
         ELSE <<Head(sorted)>> \o InsertByOffset(Tail(sorted), row)

RECURSIVE OrderByOffset(_)
OrderByOffset(rows) ==
    IF rows = <<>> THEN <<>>
    ELSE InsertByOffset(OrderByOffset(SubSeq(rows, 1, Len(rows) - 1)), rows[Len(rows)])

\* DirectoryEntry::add_chunks: the chunks inherit the entry's hash type.
add_chunks(directory_entry, rows) ==
    [directory_entry EXCEPT
         !.chunks = [i \in 1..Len(rows) |->
                        [offset |-> rows[i].offset, size |-> rows[i].size,
                         content_hash |-> rows[i].hash,
                         content_hash_type |-> directory_entry.content_hash_type]]]

\* Catalog::make_directory_entry: DirectoryEntry::new, then read_chunks.
make_directory_entry(row) ==
    add_chunks(DirectoryEntry_new(row), OrderByOffset(row.chunk_rows))

NoEntry == make_directory_entry(Entry("none", <<>>, <<>>))

\* DirectoryEntry::is_directory, is_file, is_symlink.
is_directory(e) == MaskedBits(e.flags, Flags_Directory) > 0

is_file(e) == MaskedBits(e.flags, Flags_File) > 0

is_symlink(e) == MaskedBits(e.flags, Flags_Link) > 0

\* DirectoryEntry::is_nested_catalog_mountpoint, is_nested_catalog_root.
is_nested_catalog_mountpoint(e) == MaskedBits(e.flags, Flags_NestedCatalogMountpoint) > 0

is_nested_catalog_root(e) == MaskedBits(e.flags, Flags_NestedCatalogRoot) > 0

\* DirectoryEntry::has_chunks.
has_chunks(e) == ~e.content_hash.some

\* DirectoryEntry::content_hash_string and Chunk::content_hash_string.
content_hash_string(e) ==
    IF e.content_hash.some
    THEN Some(e.content_hash.value \o hash_suffix(e.content_hash_type))
    ELSE Absent

Chunk_content_hash_string(chunk) ==
    chunk.content_hash \o hash_suffix(chunk.content_hash_type)

NoCatalog == [hash |-> <<>>, database |-> <<>>, revision |-> 0, schema |-> 0]

\* Catalog::new(path, hash) on a cached file with the given content: the
\* database must open and its properties table must be readable, and the
\* properties must give a revision and a schema other than 0.  The Catalog
\* keeps the connection (database) and queries it later.
Catalog_new(content, hash, imgs) ==
    IF content.enc # "plain" \/ ~content.complete \/ content.data \notin DOMAIN imgs
    THEN [ok |-> FALSE, err |-> "DatabaseError", catalog |-> NoCatalog]
    ELSE LET img == imgs[content.data]
         IN  IF img.kind # "catalog"
             THEN [ok |-> FALSE, err |-> "DatabaseError", catalog |-> NoCatalog]
             ELSE IF img.revision = 0 \/ img.schema = 0
                  THEN [ok |-> FALSE, err |-> "CatalogInitialization",
                        catalog |-> NoCatalog]
                  ELSE [ok |-> TRUE, err |-> "",
                        catalog |-> [hash |-> hash, database |-> content.data,
                                     revision |-> img.revision, schema |-> img.schema]]

\* Catalog::list_nested: the rows of nested_catalogs in table order.
list_nested(catalog, imgs) == imgs[catalog.database].nested

\* Catalog::find_directory_entry: the row whose md5path key is the MD5 of the
\* canonicalized path.  MD5 is taken to be free of collisions, so the key is
\* represented by the hashed string.
find_directory_entry(catalog, path, h, imgs) ==
    LET real_path == canonicalize_path(h, path)
        rows == imgs[catalog.database].entries
    IN  IF real_path \in DOMAIN rows
        THEN [ok |-> TRUE, err |-> "", entry |-> make_directory_entry(rows[real_path])]
        ELSE [ok |-> FALSE, err |-> "FileNotFound", entry |-> NoEntry]

\* HashMap::insert.
MapInsert(map, key, value) ==
    [k \in DOMAIN map \cup {key} |-> IF k = key THEN value ELSE map[k]]

\* The record of one retrieve_catalog call: the map before and after it, the
\* retrieve_file calls it made (fetches), the databases it opened (opens) and
\* the GETs it issued.
RcResult(hash, ok, err, catalog, before, after, c, fetches, opens, gets) ==
    [hash |-> hash, ok |-> ok, err |-> err, catalog |-> catalog, before |-> before,
     opened |-> after, cache |-> c, fetches |-> fetches, opens |-> opens,
     gets |-> gets]

\* retrieve_and_open_catalog that commits the map entry before the Catalog
\* has been constructed.
retrieve_and_open_catalog_early_insert(opened, wd, catalog_hash) ==
    LET name == compose_object_path(catalog_hash, CATALOG_ROOT_PREFIX)
        f == retrieve_object_with_suffix(wd, catalog_hash, CATALOG_ROOT_PREFIX)
        made == Catalog_new(f.cache[name], catalog_hash, wd.imgs)
    IN  IF ~f.ok
        THEN RcResult(catalog_hash, FALSE, "IO", NoCatalog, opened,
                      MapInsert(opened, catalog_hash, NoCatalog), f.cache,
                      <<name>>, <<>>, f.gets)
        ELSE RcResult(catalog_hash, made.ok, made.err, made.catalog, opened,
                      MapInsert(opened, catalog_hash, made.catalog), f.cache,
                      <<name>>, <<name>>, f.gets)

\* Repository::retrieve_and_open_catalog.
retrieve_and_open_catalog(opened, wd, catalog_hash) ==
    LET name == compose_object_path(catalog_hash, CATALOG_ROOT_PREFIX)
        f == retrieve_object_with_suffix(wd, catalog_hash, CATALOG_ROOT_PREFIX)
        made == Catalog_new(f.cache[name], catalog_hash, wd.imgs)
    IN  IF ~f.ok
        THEN RcResult(catalog_hash, FALSE, "IO", NoCatalog, opened, opened, f.cache,
                      <<name>>, <<>>, f.gets)
        ELSE IF ~made.ok
             THEN RcResult(catalog_hash, FALSE, made.err, NoCatalog, opened, opened,
                           f.cache, <<name>>, <<name>>, f.gets)
             ELSE RcResult(catalog_hash, TRUE, "", made.catalog, opened,
                           MapInsert(opened, catalog_hash, made.catalog), f.cache,
                           <<name>>, <<name>>, f.gets)

\* retrieve_catalog without the lookup in the resident map.
retrieve_catalog_always_open(opened, wd, catalog_hash) ==
    retrieve_and_open_catalog(opened, wd, catalog_hash)

\* Repository::retrieve_catalog.
retrieve_catalog(opened, wd, catalog_hash) ==
    IF catalog_hash \in DOMAIN opened
    THEN RcResult(catalog_hash, TRUE, "", opened[catalog_hash], opened, opened,
                  wd.cache, <<>>, <<>>, <<>>)
    ELSE retrieve_and_open_catalog(opened, wd, catalog_hash)

\* ChunkedFile::new.
ChunkedFile_new(chunks, size) == [chunks |-> chunks, position |-> 0, size |-> size]

\* Box<dyn FileLike>: a File opened at a path of the cache, or a ChunkedFile
\* over (path, chunk) pairs with a total size.
Reader(kind, path, chunks, size) ==
    [kind |-> kind, path |-> path, chunks |-> chunks, size |-> size]

NoReader == Reader("none", None, <<>>, 0)

\* The outcome of Repository::retrieve_object.
ObjectResult(kind, err, c, gets, reader) ==
    [kind |-> kind, err |-> err, cache |-> c, gets |-> gets, reader |-> reader]

\* ---------------------------------------------------------------- RootFile
\* The length of the checksum line and of the checksum in it, in bytes.
ChecksumLineLen == 41

ChecksumLen == 40

\* BufRead::read_line: the bytes up to and including the first newline, or
\* all the bytes when there is none.
ReadLine(bytes) ==
    IF \E i \in 1..Len(bytes) : bytes[i] = "\n"
    THEN SubSeq(bytes, 1, CHOOSE i \in 1..Len(bytes) :
                              /\ bytes[i] = "\n"
                              /\ \A j \in 1..(i - 1) : bytes[j] # "\n")
    ELSE bytes

\* &s[..n]: the index must not exceed the length in bytes and must lie on a
\* character boundary, else the slice panics.
SliceOk(str, n) == \E k \in 0..Len(str) : StrByteLen(SubSeq(str, 1, k)) = n

SliceTo(str, n) ==
    SubSeq(str, 1, CHOOSE k \in 0..Len(str) : StrByteLen(SubSeq(str, 1, k)) = n)

\* &s[n..]
SliceFrom(str, n) == SubSeq(str, Len(SliceTo(str, n)) + 1, Len(str))

\* The hex digit that stands for a byte of hashed content.
HexOf(c) ==
    IF c = "\n" THEN "1" ELSE IF c = "-" THEN "2" ELSE IF c = "E" THEN "3"
    ELSE IF c = "N" THEN "4" ELSE IF c = "H" THEN "5" ELSE IF c = "S" THEN "6"
    ELSE IF c = "C" THEN "7" ELSE IF c = "G" THEN "8" ELSE "9"

\* Sha1 of the contents, encode_hex: ChecksumLen lowercase hex characters.
\* SHA-1 is taken to be free of collisions: contents of up to ChecksumLen
\* bytes over the alphabet of HexOf have different digests.
Sha1Hex(contents) ==
    [i \in 1..ChecksumLen |-> IF i <= Len(contents) THEN HexOf(contents[i]) ELSE "0"]

RootFileResult(kind, checksum, contents) ==
    [kind |-> kind, checksum |-> checksum, contents |-> contents]

RECURSIVE RootFileLoop(_, _)
\* The loop of RootFile::new over the lines of the file and the check of the
\* checksum after it.  A checksum of None is the empty string.
RootFileLoop(bytes, contents) ==
    LET buffer == ReadLine(bytes)
        rest == SubSeq(bytes, Len(buffer) + 1, Len(bytes))
        second == ReadLine(rest)
    IN  IF StrByteLen(buffer) = 0 THEN RootFileResult("Ok", None, contents)
        ELSE IF ~SliceOk(buffer, 2) THEN RootFileResult("Panic", None, <<>>)
        ELSE IF SliceTo(buffer, 2) = <<"-", "-">>
        THEN IF StrByteLen(second) # ChecksumLineLen
             THEN RootFileResult("IO", None, <<>>)
             ELSE IF ~SliceOk(second, ChecksumLen)
             THEN RootFileResult("Panic", None, <<>>)
             ELSE IF Sha1Hex(contents) # SliceTo(second, ChecksumLen)
             THEN RootFileResult("InvalidRootFileSignature", None, <<>>)
             ELSE RootFileResult("Ok", SliceTo(second, ChecksumLen), contents)
        ELSE RootFileLoop(rest, contents \o buffer)

\* RootFile::new on a file with the given bytes.
RootFile_new(bytes) == RootFileLoop(bytes, <<>>)

\* RootFile::has_signature.
has_signature(rf) == rf.checksum # None

\* ------------------------------------------------- Cache: the tree on disk
\* The cache root as a tree: data is absent, a directory or a regular
\* file; entries maps each name directly under data to a directory with the
\* files in it, or to a regular file.
DirWith(files) == [kind |-> "dir", files |-> files]

RegularFile == [kind |-> "file", files |-> {}]

Tree(data, entries) == [data |-> data, entries |-> entries]

LastFolder == 255

HexDigits ==
    <<"0", "1", "2", "3", "4", "5", "6", "7", "8", "9", "a", "b", "c", "d", "e", "f">>

\* format!("{:02x}", i)
Hex2(i) == <<HexDigits[(i \div 16) + 1], HexDigits[(i % 16) + 1]>>

TreeResult(ok, t) == [ok |-> ok, tree |-> t]

\* Cache::create_directory("data"): create_dir_all fails when data is a
\* regular file and leaves an existing directory as it is.
create_directory(t) ==
    IF t.data = "file" THEN TreeResult(FALSE, t)
    ELSE TreeResult(TRUE, Tree("dir", t.entries))

\* The loop of Cache::initialize from folder i to folder last:
\* create_dir_all(data/xx) fails when xx is a regular file and leaves an
\* existing directory as it is; the first failure ends the loop, so the
\* folders before the first regular file in the way are the ones made.
InitializeLoop(t, i, last) ==
    LET in_the_way == {k \in i..last : /\ Hex2(k) \in DOMAIN t.entries
                                       /\ t.entries[Hex2(k)].kind = "file"}
        stop == IF in_the_way = {} THEN last + 1
                ELSE CHOOSE k \in in_the_way : \A j \in in_the_way : k <= j
        made == {Hex2(k) : k \in i..(stop - 1)}
    IN  TreeResult(in_the_way = {},
                   Tree(t.data, [n \in DOMAIN t.entries \cup made |->
                                    IF n \in DOMAIN t.entries THEN t.entries[n]
                                    ELSE DirWith({})]))

\* Cache::initialize whose loop leaves out the last folder (0x00..0xff).
Cache_initialize_exclusive(t) ==
    IF ~create_directory(t).ok THEN TreeResult(FALSE, t)
    ELSE InitializeLoop(create_directory(t).tree, 0, LastFolder - 1)

\* Cache::initialize.
Cache_initialize(t) ==
    IF ~create_directory(t).ok THEN TreeResult(FALSE, t)
    ELSE InitializeLoop(create_directory(t).tree, 0, LastFolder)

\* Cache::evict: only when data exists and is a directory is it removed
\* with everything below it and initialized again; evict returns Ok in
\* every other case too.
Cache_evict(t) ==
    IF t.data = "dir"
    THEN Cache_initialize(Tree("absent", <<>>))
    ELSE TreeResult(TRUE, t)

\* Cache::get("data/<dir>/<file>") on the tree.
Cache_get(t, dir, file_name) ==
    /\ t.data = "dir"
    /\ dir \in DOMAIN t.entries
    /\ file_name \in t.entries[dir].files

\* ---------------------------------------------------- Manifest, History, new
LAST_REPLICATION_NAME == <<".cvmfs_last_snapshot">>

REPLICATING_NAME == <<".cvmfs_is_snapshotting">>

\* str::split('\n'): the pieces between the separators, the piece after the
\* last separator included (empty when the text ends with the separator).
RECURSIVE SplitNl(_, _)
SplitNl(str, cur) ==
    IF str = <<>> THEN <<cur>>
    ELSE IF Head(str) = "\n" THEN <<cur>> \o SplitNl(Tail(str), <<>>)
         ELSE SplitNl(Tail(str), Append(cur, Head(str)))

DigitValue ==
    ("0" :> 0) @@ ("1" :> 1) @@ ("2" :> 2) @@ ("3" :> 3) @@ ("4" :> 4) @@ ("5" :> 5)
        @@ ("6" :> 6) @@ ("7" :> 7) @@ ("8" :> 8) @@ ("9" :> 9)

RECURSIVE StripZeros(_)
StripZeros(digits) ==
    IF Len(digits) > 1 /\ Head(digits) = "0" THEN StripZeros(Tail(digits)) ELSE digits

\* a <= b for two decimal numerals without leading zeros.
RECURSIVE NumeralLeq(_, _)
NumeralLeq(a, b) ==
    IF Len(a) # Len(b) THEN Len(a) < Len(b)
    ELSE IF a = <<>> THEN TRUE
         ELSE IF Head(a) # Head(b) THEN DigitValue[Head(a)] < DigitValue[Head(b)]
              ELSE NumeralLeq(Tail(a), Tail(b))

RECURSIVE NumeralValue(_, _)
NumeralValue(digits, acc) ==
    IF digits = <<>> THEN acc
    ELSE NumeralValue(Tail(digits), 10 * acc + DigitValue[Head(digits)])

\* <u32 as FromStr>::from_str: an optional "+", then one or more decimal
\* digits, the value at most u32::MAX.
ParseU32(value) ==
    LET digits == IF value # <<>> /\ Head(value) = "+" THEN Tail(value) ELSE value
        numeral == StripZeros(digits)
    IN  IF digits = <<>> \/ \E i \in 1..Len(digits) : digits[i] \notin DOMAIN DigitValue
        THEN [ok |-> FALSE, n |-> 0]
        ELSE IF ~NumeralLeq(numeral, <<"4", "2", "9", "4", "9", "6", "7", "2", "9", "5">>)
             THEN [ok |-> FALSE, n |-> 0]
             ELSE [ok |-> TRUE, n |-> NumeralValue(numeral, 0)]

\* <i64 as FromStr>::from_str accepts an optional sign and decimal digits up
\* to the range of i64; DateTime::from_timestamp_millis accepts the
\* timestamps that chrono can represent, which every numeral of fewer than
\* sixteen digits is.
ParseTimestamp(value) ==
    LET signed == value # <<>> /\ Head(value) \in {"+", "-"}
        digits == IF signed THEN Tail(value) ELSE value
    IN  /\ digits # <<>>
        /\ \A i \in 1..Len(digits) : digits[i] \in DOMAIN DigitValue
        /\ Len(StripZeros(digits)) < 16

ManifestResult(kind, err, m) == [kind |-> kind, err |-> err, manifest |-> m]

\* Manifest::new before the first line: the defaults of the fields.
DefaultManifest ==
    [root_catalog |-> <<>>, root_hash |-> <<>>, root_catalog_size |-> 0,
     certificate |-> <<>>, history_database |-> Absent, ttl |-> 0, revision |-> 0,
     repository_name |-> <<>>, micro_catalog |-> <<>>,
     garbage_collectable |-> FALSE, allows_alternative_name |-> FALSE]

\* Manifest::parse_boolean: any value other than "yes" and "no" panics.
parse_boolean(value) ==
    IF value = <<"y", "e", "s">> THEN [ok |-> TRUE, b |-> TRUE]
    ELSE IF value = <<"n", "o">> THEN [ok |-> TRUE, b |-> FALSE]
         ELSE [ok |-> FALSE, b |-> FALSE]

\* The loop of Manifest::new over root_file.lines().  &line[1..] is taken
\* for every line that has a first character and panics when the first
\* character is longer than one byte.
RECURSIVE ManifestLoop(_, _)
ManifestLoop(lines, m) ==
    IF lines = <<>> THEN ManifestResult("Ok", "", m)
    ELSE LET line == Head(lines)
             rest == Tail(lines)
         IN  IF line = <<>> THEN ManifestLoop(rest, m)
             ELSE IF ~SliceOk(line, 1) THEN ManifestResult("Panic", "", DefaultManifest)
             ELSE LET key == Head(line)
                      value == SliceFrom(line, 1)
                      number == ParseU32(value)
                      boolean == parse_boolean(value)
                  IN  CASE key = "C" -> ManifestLoop(rest, [m EXCEPT !.root_catalog = value])
                        [] key = "R" -> ManifestLoop(rest, [m EXCEPT !.root_hash = value])
                        [] key = "B" ->
                             IF ~number.ok THEN ManifestResult("Err", "ParseError", DefaultManifest)
                             ELSE ManifestLoop(rest, [m EXCEPT !.root_catalog_size = number.n])
                        [] key = "X" -> ManifestLoop(rest, [m EXCEPT !.certificate = value])
                        [] key = "H" ->
                             ManifestLoop(rest, [m EXCEPT !.history_database = Some(value)])
                        [] key = "T" ->
                             IF ~ParseTimestamp(value)
                             THEN ManifestResult("Err", "InvalidTimestamp", DefaultManifest)
                             ELSE ManifestLoop(rest, m)
                        [] key = "D" ->
                             IF ~number.ok THEN ManifestResult("Err", "ParseError", DefaultManifest)
                             ELSE ManifestLoop(rest, [m EXCEPT !.ttl = number.n])
                        [] key = "S" ->
                             IF ~number.ok THEN ManifestResult("Err", "ParseError", DefaultManifest)
                             ELSE ManifestLoop(rest, [m EXCEPT !.revision = number.n])
                        [] key = "N" -> ManifestLoop(rest, [m EXCEPT !.repository_name = value])
                        [] key = "L" -> ManifestLoop(rest, [m EXCEPT !.micro_catalog = value])
                        [] key = "G" ->
                             IF ~boolean.ok THEN ManifestResult("Panic", "", DefaultManifest)
                             ELSE ManifestLoop(rest, [m EXCEPT !.garbage_collectable = boolean.b])
                        [] key = "A" ->
                             IF ~boolean.ok THEN ManifestResult("Panic", "", DefaultManifest)
                             ELSE ManifestLoop(rest,
                                               [m EXCEPT !.allows_alternative_name = boolean.b])
                        [] OTHER -> ManifestLoop(rest, m)

\* Manifest::new on the contents of a RootFile.
Manifest_new(contents) == ManifestLoop(SplitNl(contents, <<>>), DefaultManifest)

\* Manifest::has_history.
has_history(m) == m.history_database.some

\* History::new on a cached file: the database must open and its properties
\* table must be readable; a schema other than "1.0" panics.  A file that is
\* no history database has no readable properties table.
History_new(content, imgs) ==
    IF content.enc # "plain" \/ ~content.complete \/ content.data \notin DOMAIN imgs
    THEN [kind |-> "Err", err |-> "DatabaseError", tags |-> <<>>]
    ELSE LET img == imgs[content.data]
         IN  IF img.kind # "history"
             THEN [kind |-> "Err", err |-> "DatabaseError", tags |-> <<>>]
             ELSE IF img.schema # <<"1", ".", "0">>
                  THEN [kind |-> "Panic", err |-> "", tags |-> <<>>]
                  ELSE [kind |-> "Ok", err |-> "", tags |-> img.tags]

NoTag == [revision |-> 0, hash |-> <<>>]

TagResult(kind, err, t, c, gets) ==
    [kind |-> kind, err |-> err, tag |-> t, cache |-> c, gets |-> gets]

\* Repository::get_tag: retrieve_history, then History::get_tag_by_revision.
\* compose_object_path splits the hash after its second byte and panics when
\* that is no character boundary of the hash.  TagOfFile is get_tag after
\* the fetch f of the history database, TagOfHistory after History::new.
TagOfHistory(f, history, number) ==
    IF history.kind # "Ok"
    THEN TagResult(history.kind, history.err, NoTag, f.cache, f.gets)
    ELSE IF number \notin DOMAIN history.tags
         THEN TagResult("Err", "RevisionNotFound", NoTag, f.cache, f.gets)
         ELSE TagResult("Ok", "", [revision |-> number, hash |-> history.tags[number]],
                        f.cache, f.gets)

TagOfFile(f, name, imgs, number) ==
    IF ~f.ok THEN TagResult("Err", "IO", NoTag, f.cache, f.gets)
    ELSE TagOfHistory(f, History_new(f.cache[name], imgs), number)

get_tag(wd, m, number) ==
    IF ~has_history(m)
    THEN TagResult("Err", "HistoryNotFound", NoTag, wd.cache, <<>>)
    ELSE IF ~SliceOk(m.history_database.value, 2)
    THEN TagResult("Panic", "", NoTag, wd.cache, <<>>)
    ELSE TagOfFile(retrieve_object_with_suffix(wd, m.history_database.value, <<"H">>),
                   compose_object_path(m.history_database.value, <<"H">>), wd.imgs,
                   number)

\* The outcome of Repository::new: the Repository's fields when it returns
\* Ok, and what the calls left in the cache in every case.
NewResult(kind, err, m, name, opened, t, c, gets) ==
    [kind |-> kind, err |-> err, manifest |-> m, fqrn |-> name, opened |-> opened,
     tag |-> t, cache |-> c, gets |-> gets]

\* Repository::read_manifest: retrieve_raw_file, RootFile::new on the file,
\* Manifest::new on the RootFile.
ManifestRead(f, made) ==
    [kind |-> made.kind, err |-> made.err, manifest |-> made.manifest, f |-> f]

ManifestOfRootFile(f, parsed) ==
    IF parsed.kind = "Panic"
    THEN [kind |-> "Panic", err |-> "", manifest |-> DefaultManifest, f |-> f]
    ELSE IF parsed.kind # "Ok"
    THEN [kind |-> "Err", err |-> parsed.kind, manifest |-> DefaultManifest, f |-> f]
    ELSE ManifestRead(f, Manifest_new(parsed.contents))

ManifestOfFile(f) ==
    IF ~f.ok THEN [kind |-> "Err", err |-> "IO", manifest |-> DefaultManifest, f |-> f]
    ELSE ManifestOfRootFile(f, RootFile_new(f.cache[MANIFEST_NAME].data))

read_manifest(wd) ==
    ManifestOfFile(retrieve_raw_file(wd.cache, wd.dd, MANIFEST_NAME,
                                     IF wd.net.up THEN wd.srv[MANIFEST_NAME] ELSE NetErr,
                                     wd.net.w))

\* Repository::get_replication_date as far as it touches the cache: the file
\* is fetched raw, and the caller drops every error.
get_replication_date(wd, c, file_name) ==
    retrieve_raw_file(c, wd.dd, file_name,
                      IF wd.net.up THEN wd.srv[file_name] ELSE NetErr, wd.net.w)

\* Repository::new after get_tag: the Repository is built with an empty
\* map of catalogs and the tag t.
NewOfTag(read, gets, t) ==
    IF t.kind # "Ok"
    THEN NewResult(t.kind, t.err, DefaultManifest, <<>>, <<>>, NoTag, t.cache,
                   gets \o t.gets)
    ELSE NewResult("Ok", "", read.manifest, read.manifest.repository_name, <<>>, t.tag,
                   t.cache, gets \o t.gets)

\* Repository::new after the two get_replication_date calls.
NewOfDates(wd, read, last, since) ==
    NewOfTag(read, read.f.gets \o last.gets \o since.gets,
             get_tag([wd EXCEPT !.cache = since.cache], read.manifest,
                     read.manifest.revision))

NewOfLast(wd, read, last) ==
    NewOfDates(wd, read, last, get_replication_date(wd, last.cache, REPLICATING_NAME))

\* Repository::new after read_manifest.
NewOfManifest(wd, read) ==
    IF read.kind # "Ok"
    THEN NewResult(read.kind, read.err, DefaultManifest, <<>>, <<>>, NoTag, read.f.cache,
                   read.f.gets)
    ELSE NewOfLast(wd, read, get_replication_date(wd, read.f.cache,
                                                  LAST_REPLICATION_NAME))

\* The root catalog of a Repository opened on top of the outcome of new.
WithRootCatalog(made, rc) ==
    [made EXCEPT !.opened = rc.opened, !.cache = rc.cache, !.gets = @ \o rc.gets]

OpenRootCatalog(wd, made) ==
    IF made.kind # "Ok" THEN made
    ELSE WithRootCatalog(made, retrieve_catalog(<<>>, [wd EXCEPT !.cache = made.cache],
                                                made.tag.hash))

\* Repository::new that opens the root catalog of its tag before it returns.
Repository_new_eager(wd) == OpenRootCatalog(wd, NewOfManifest(wd, read_manifest(wd)))

\* Repository::new.
Repository_new(wd) == NewOfManifest(wd, read_manifest(wd))

\* Repository::retrieve_current_root_catalog: current_tag, then
\* retrieve_catalog of the tag's hash.
retrieve_current_root_catalog(opened, wd, t) ==
    retrieve_catalog(opened, wd, t.hash)

\* ------------------------------------------------- call records, idle parts
\* The record of a call: cached_before tells whether Cache::get(name) was Some
\* when the call began, repeat whether an earlier retrieve_file(name) had
\* returned Ok since the last evict.
NoCall == [op |-> "none", name |-> <<>>, ok |-> FALSE, path |-> None,
           gets |-> <<>>, cached_before |-> FALSE, repeat |-> FALSE]

Call(op, name, f, before, repeat) ==
    [op |-> op, name |-> name, ok |-> f.ok, path |-> f.path, gets |-> f.gets,
     cached_before |-> before, repeat |-> repeat]

\* The Fetcher is not used: no server, an empty cache.
FetchIdle ==
    /\ server = <<>>
    /\ cache = <<>>
    /\ data_dir = FALSE
    /\ ret = NoCall
    /\ succeeded = {}

NoIo == [op |-> "none", whence |-> "", arg |-> 0, before |-> 0, kind |-> "",
         n |-> 0, buf |-> <<>>, gets |-> <<>>]

IoCall(op, whence, arg, before, r) ==
    [op |-> op, whence |-> whence, arg |-> arg, before |-> before, kind |-> r.kind,
     n |-> r.n, buf |-> r.buf, gets |-> r.gets]

\* No ChunkedFile is open.
ChunkIdle ==
    /\ cf = ChunkedFile_new(<<>>, 0)
    /\ io = NoIo
    /\ overflow_checks = FALSE

NoRepoCall == [op |-> "none", path |-> <<>>, needle |-> <<>>, hash |-> <<>>,
               stage |-> 0, matched |-> 0, root |-> <<>>, iter |-> 0]

NoOut == [op |-> "none", arg |-> <<>>, kind |-> "", err |-> "", catalog |-> <<>>,
          root |-> <<>>, entry |-> NoEntry, listing |-> <<>>, gets |-> <<>>,
          reader |-> NoReader]

\* No Repository has been constructed.
RepoIdle ==
    /\ images = <<>>
    /\ opened_catalogs = <<>>
    /\ tag = NoTag
    /\ call = NoRepoCall
    /\ out = NoOut
    /\ rcs = <<>>

NoRootFile == RootFileResult("none", None, <<>>)

RootIdle ==
    /\ file = <<>>
    /\ root_file = NoRootFile

NoManifest == DefaultManifest

NoBuilt == [kind |-> "none", err |-> "", gets |-> <<>>]

\* No Repository::new has been called.
BootIdle ==
    /\ manifest = NoManifest
    /\ fqrn = <<>>
    /\ built = NoBuilt

NoTree == [data |-> "absent", entries |-> <<>>]

NoCres == [op |-> "none", ok |-> FALSE, before |-> NoTree]

TreeIdle ==
    /\ tree = NoTree
    /\ cres = NoCres

NoFsRet == [op |-> "none", path |-> <<>>, kind |-> "", errno |-> "", err |-> ""]

\* No CernvmFileSystem is mounted.
ShimIdle ==
    /\ poisoned = {}
    /\ opened_files = {}
    /\ fsret = NoFsRet

NoGiven == [f |-> "none"]

NoAnswer == [f |-> "none"]

\* No function has been called on its own.
PureIdle ==
    /\ given = NoGiven
    /\ answer = NoAnswer

NoWorker == [at |-> "idle", op |-> "", offset |-> 0, issued |-> 0, kind |-> "",
             start |-> 0]

NoGuard == [repository |-> 0, opened_files |-> 0]

NoHandle == [position |-> 0, clock |-> 0, handles |-> 0]

\* No thread pool serves the file system.
ThreadIdle ==
    /\ worker = <<>>
    /\ guard = NoGuard
    /\ fh = NoHandle

RestIdle == RootIdle /\ BootIdle /\ TreeIdle /\ ShimIdle /\ PureIdle /\ ThreadIdle

\* ----------------------------------------------- specification: ChunkedFile
ChunkHash(i) == <<"c", "c", ToString(i)>>

ChunkName(i) == compose_object_path(ChunkHash(i), <<>>)

ChunkNames == {ChunkName(i) : i \in 1..MaxFileSize}

RECURSIVE Sum(_)
Sum(sizes) == IF sizes = <<>> THEN 0 ELSE Head(sizes) + Sum(Tail(sizes))

\* The chunk lists that cover [0, size) contiguously in offset order, as the
\* READ_CHUNK query (ORDER BY offset) delivers them for a well-formed entry.
Covers ==
    {sizes \in SeqsUpTo(1..MaxFileSize, MaxFileSize) : Sum(sizes) <= MaxFileSize}

ChunksOf(sizes) ==
    [i \in 1..Len(sizes) |-> Chunk(ChunkName(i), Sum(SubSeq(sizes, 1, i - 1)), sizes[i])]

InitChunked ==
    /\ \E sizes \in Covers : cf = ChunkedFile_new(ChunksOf(sizes), Sum(sizes))
    /\ io = NoIo
    /\ overflow_checks \in BOOLEAN
    /\ server = [n \in ChunkNames |-> Response("ok", ZBody(n))]
    /\ \E warm \in BOOLEAN :
           cache = [n \in ChunkNames |-> IF warm THEN PlainBody(n) ELSE NoFile]
    /\ data_dir = TRUE
    /\ ret = NoCall
    /\ succeeded = {}
    /\ host = {}
    /\ needle = <<>> /\ nested = <<>> /\ found = Pending
    /\ RepoIdle
    /\ RestIdle

ChunkedRead(buf_len) ==
    \E up \in BOOLEAN, w \in WriteOutcomes :
        LET resp_of == [n \in ChunkNames |-> IF up THEN server[n] ELSE NetErr]
            r == ChunkedFile_read(cf, buf_len, cache, data_dir, overflow_checks,
                                  resp_of, w)
        IN  /\ cf' = [cf EXCEPT !.position = r.position]
            /\ cache' = r.cache
            /\ io' = IoCall("read", "", buf_len, cf.position, r)
            /\ UNCHANGED <<overflow_checks, server, data_dir, ret, succeeded, host,
                           nestedVars, repoVars, restVars>>

ChunkedSeek(whence, p) ==
    LET r == ChunkedFile_seek(cf, whence, p, overflow_checks)
    IN  /\ cf' = [cf EXCEPT !.position = r.position]
        /\ io' = IoCall("seek", whence, p, cf.position, r)
        /\ UNCHANGED <<overflow_checks, fetchVars, host, nestedVars, repoVars, restVars>>

NextChunked ==
    \/ \E buf_len \in 0..MaxBuf : ChunkedRead(buf_len)
    \/ \E p \in 0..U64Max : ChunkedSeek("Start", p)
    \/ \E p \in I64Min..I64Max : ChunkedSeek("End", p)
    \/ \E p \in I64Min..I64Max : ChunkedSeek("Current", p)

SpecChunked == InitChunked /\ [][NextChunked]_vars

\* ------------------------------------------------------------- claim C4
\* The bytes [from, to) of the concatenation of the chunks' contents.
FileRange(from, to) == [j \in 1..(to - from) |-> from + j - 1]

\* C4: every read that returns, issued at position pos with a buffer of
\* length n, delivers the bytes [pos, min(pos + n, size)) of the
\* concatenation of the chunks' contents.
C4_ReadDeliversFileBytes ==
    (io.op = "read" /\ io.kind = "Ok") =>
        SubSeq(io.buf, 1, io.n) =
            IF io.before < cf.size
            THEN FileRange(io.before, Min(io.before + io.arg, cf.size))
            ELSE <<>>

\* ------------------------------------------------------------- claim C5
\* C5: a read that returns yields min(len(buf), size - position) bytes below
\* size and 0 bytes at or beyond size, advances position by the count it
\* returns, and never returns more than len(buf).
C5_ReadCountAndPosition ==
    (io.op = "read" /\ io.kind = "Ok") =>
        /\ io.n = IF io.before < cf.size THEN Min(io.arg, cf.size - io.before) ELSE 0
        /\ cf.position = io.before + io.n
        /\ io.n <= io.arg

\* ------------------------------------------------------------- claim C6
SeekTarget ==
    IF io.whence = "Start" THEN io.arg
    ELSE IF io.whence = "End" THEN cf.size + io.arg
    ELSE io.before + io.arg

\* C6 as stated: a negative target returns UnexpectedEof and leaves position
\* unchanged, every non-negative target becomes the position and the
\* returned value.
C6_SeekAnyNonNegativeTarget ==
    io.op = "seek" =>
        IF SeekTarget < 0
        THEN io.kind = "UnexpectedEof" /\ cf.position = io.before
        ELSE io.kind = "Ok" /\ cf.position = SeekTarget /\ io.n = SeekTarget

\* C6 amended: a negative target returns UnexpectedEof and leaves position
\* unchanged; a target of 0 .. i64::MAX, also one beyond size, becomes the
\* position and the returned value; a target above i64::MAX never becomes
\* the position: Start(p) returns UnexpectedEof, position + d and size + d
\* panic in a build with overflow checks and return UnexpectedEof otherwise.
C6_SeekWithinI64 ==
    io.op = "seek" =>
        IF SeekTarget < 0
        THEN io.kind = "UnexpectedEof" /\ cf.position = io.before
        ELSE IF SeekTarget <= I64Max
             THEN io.kind = "Ok" /\ cf.position = SeekTarget /\ io.n = SeekTarget
             ELSE /\ cf.position = io.before
                  /\ io.kind = IF io.whence # "Start" /\ overflow_checks
                               THEN "Panic" ELSE "UnexpectedEof"

\* A seek from the end that lands beyond size and becomes the position.
C6_Witness ==
    /\ io.op = "seek"
    /\ io.whence = "End"
    /\ io.kind = "Ok"
    /\ cf.size > 0
    /\ cf.position > cf.size

\* ------------------------------------------------------------- claim C26
\* C26: a read issued at a position below size starts at the chunk c with
\* c.offset <= position < c.offset + c.size: the chunk search finds the index
\* of that chunk, and not the index of a chunk with offset >= position and
\* offset + size < position.
C26_ReadStartsAtChunkOfPosition ==
    (io.op = "read" /\ io.before < cf.size) =>
        LET index == ChunkSearch(cf.chunks, 0, io.before, overflow_checks)
        IN  /\ index \in 0..(Len(cf.chunks) - 1)
            /\ cf.chunks[index + 1].offset <= io.before
            /\ io.before < cf.chunks[index + 1].offset + cf.chunks[index + 1].size

\* --------------------------------------------- specification: Fetcher, Cache
ObjectName == compose_object_path(H1, CATALOG_ROOT_PREFIX)

FetchNames == {MANIFEST_NAME, ObjectName, <<"data", "aa">>}

ServerBodies(name) ==
    { Response("ok", ZBody(name)), Response("ok", PlainBody(name)),
      Response("notfound", PlainBody(<<"404">>)) }

\* A Fetcher right after Fetcher::new: the cache directory may be fresh or
\* hold files of an earlier run, some of them cut short.
InitFetcher ==
    /\ server \in [FetchNames -> UNION {ServerBodies(n) : n \in FetchNames}]
    /\ \A n \in FetchNames : server[n] \in ServerBodies(n)
    /\ data_dir \in BOOLEAN
    /\ cache \in [FetchNames -> {NoFile, Truncated(PlainBody(ObjectName))}]
    /\ \A n \in FetchNames :
           cache[n] # NoFile => (n = ObjectName /\ data_dir)
    /\ ret = NoCall
    /\ succeeded = {}
    /\ host = {}
    /\ needle = <<>> /\ nested = <<>> /\ found = Pending
    /\ ChunkIdle
    /\ RepoIdle
    /\ RestIdle

RetrieveFile(name) ==
    \E resp \in GetOutcomes(server, name), w \in WriteOutcomes :
        LET f == retrieve_file(cache, data_dir, name, resp, w)
        IN  /\ cache' = f.cache
            /\ ret' = Call("retrieve_file", name, f, CacheGet(cache, data_dir, name) # None,
                         \E e \in succeeded : e[1] = name)
            /\ succeeded' = IF f.ok THEN succeeded \cup {<<name, f.path>>} ELSE succeeded
            /\ UNCHANGED <<server, data_dir, host, nestedVars, chunkVars, repoVars, restVars>>

RetrieveRawFile(name) ==
    \E resp \in GetOutcomes(server, name), w \in WriteOutcomes :
        LET f == retrieve_raw_file(cache, data_dir, name, resp, w)
        IN  /\ cache' = f.cache
            /\ ret' = Call("retrieve_raw_file", name, f,
                         CacheGet(cache, data_dir, name) # None,
                         \E e \in succeeded : e[1] = name)
            /\ UNCHANGED <<server, data_dir, succeeded, host, nestedVars, chunkVars, repoVars, restVars>>

\* Cache::initialize: create_dir_all of data and data/00 .. data/ff.
CacheInitialize ==
    /\ data_dir' = TRUE
    /\ ret' = [NoCall EXCEPT !.op = "initialize", !.ok = TRUE]
    /\ UNCHANGED <<server, cache, succeeded, host, nestedVars, chunkVars, repoVars, restVars>>

\* Cache::evict: when data exists, remove it with everything below it and
\* initialize again; otherwise nothing.
CacheEvict ==
    /\ cache' = IF data_dir
                THEN [n \in DOMAIN cache |-> IF UnderData(n) THEN NoFile ELSE cache[n]]
                ELSE cache
    /\ ret' = [NoCall EXCEPT !.op = "evict", !.ok = TRUE]
    /\ succeeded' = {}
    /\ UNCHANGED <<server, data_dir, host, nestedVars, chunkVars, repoVars, restVars>>

NextFetcher ==
    \/ \E name \in FetchNames : RetrieveFile(name)
    \/ \E name \in FetchNames : RetrieveRawFile(name)
    \/ CacheInitialize
    \/ CacheEvict

SpecFetcher == InitFetcher /\ [][NextFetcher]_vars

\* ------------------------------------------------------------- claim C7
\* C7: a retrieve_file(name) call issues a GET only when name is not in the
\* cache as the call begins; once a retrieve_file(name) has succeeded, every
\* later retrieve_file(name) before the next evict succeeds without a GET and
\* returns the path the earlier calls returned.
C7_HitIssuesNoGet ==
    ret.op = "retrieve_file" =>
        /\ ret.gets # <<>> => ~ret.cached_before
        /\ ret.repeat =>
               /\ ret.ok
               /\ ret.gets = <<>>
               /\ \A e \in succeeded : e[1] = ret.name => e[2] = ret.path

\* A second retrieve_file of an object that the first call had to download.
C7_Witness ==
    /\ ret.op = "retrieve_file"
    /\ ret.repeat
    /\ ret.name = ObjectName
    /\ cache[ObjectName] = PlainBody(ObjectName)

C27_PartialFileOverwritten ==
    [][\A name \in FetchNames :
           (/\ RetrieveFile(name)
            /\ cache[name] # NoFile
            /\ ~cache[name].complete
            /\ ret'.ok)
               => /\ cache'[name].complete
                  /\ cache'[name].enc = "plain"]_vars

\* ------------------------------------------------------------- claim C34
\* C34: a retrieve_file(name) or retrieve_raw_file(name) that found no entry
\* for name and returned an error, or was answered with a non-success HTTP
\* status, leaves Cache::get(name) absent; and a retrieve_file(name) served
\* from the cache is never served the body of a non-success response.
C34_FailureLeavesNoEntry ==
    /\ (/\ ret.op \in {"retrieve_file", "retrieve_raw_file"}
        /\ ~ret.cached_before
        /\ \/ ~ret.ok
           \/ ret.gets # <<>> /\ ret.gets[1].resp.status # "ok")
           => CacheGet(cache, data_dir, ret.name) = None
    /\ (ret.op = "retrieve_file" /\ ret.ok /\ ret.gets = <<>>
            /\ server[ret.name].status # "ok")
           => cache[ret.name] # server[ret.name].body

\* ------------------------------------------------ specification: Repository
PRoot == <<"/">>

PA == <<"/", "a">>

PAB == <<"/", "a", "/", "b">>

PABC == <<"/", "a", "/", "b", "/", "c">>

PABX == <<"/", "a", "/", "b", "x">>

LookupPaths == {PRoot, PAB, PABC, PABX}

\* The host has nothing at the repository's paths, or has /a/b/c as a
\* symbolic link to /a/bx.
RepoHostStates == { {}, {HostEntry(PABC, PABX)} }

RepoHashes == {HRoot, H1, H2}

HistoryHash == <<"h", "h", "0">>

FileHash == <<"f", "f", "0">>

HistoryName == compose_object_path(HistoryHash, <<"H">>)

RepoNames ==
    {compose_object_path(h, CATALOG_ROOT_PREFIX) : h \in RepoHashes}
        \cup {HistoryName, compose_object_path(FileHash, <<>>)}

\* The tags table of the history database: revision -> root catalog hash.
HistoryTags == (1 :> HRoot) @@ (2 :> H1)

RevisionTag(revision) == [revision |-> revision, hash |-> HistoryTags[revision]]

\* The catalog table of each catalog.
EntriesOf(h) ==
    IF h = HRoot
    THEN (<<>> :> Entry("dir", <<>>, <<"-">>)) @@ (PA :> Entry("dir", <<>>, <<>>))
            @@ (PAB :> Entry("dir", <<>>, PA)) @@ (PABX :> Entry("file", FileHash, PA))
    ELSE IF h = H1
         THEN (PAB :> Entry("dir", <<>>, PA)) @@ (PABC :> Entry("file", FileHash, PAB))
         ELSE (PABC :> Entry("dir", <<>>, PAB))

\* The rows a nested_catalogs table is made of: the root catalog refers to
\* H1; H1 refers to H2 and to itself; H2 is a leaf.
RepoRefs(h) ==
    IF h = HRoot THEN {CatalogReference(PA, H1), CatalogReference(PAB, H1)}
    ELSE IF h = H1 THEN {CatalogReference(PA, H1), CatalogReference(PAB, H2)}
    ELSE {}

\* What the server holds for a catalog hash: a catalog with some
\* nested_catalogs table, a catalog without a revision property, a file that
\* is no database, or an object that is not zlib-compressed.
Variant(v, tbl) == [v |-> v, nested |-> tbl]

Variants(h) ==
    {Variant("good", t) : t \in SeqsUpTo(RepoRefs(h), MaxRepoNested)}
        \cup IF h = H2
             THEN {Variant(v, <<>>) : v \in {"norevision", "garbage", "notzlib"}}
             ELSE {}

ImageOf(h, var) ==
    [kind |-> IF var.v = "garbage" THEN "garbage" ELSE "catalog",
     revision |-> IF var.v = "norevision" THEN 0 ELSE 1,
     schema |-> 1,
     nested |-> var.nested,
     entries |-> EntriesOf(h)]

ServedFor(h, var) ==
    IF var.v = "notzlib" THEN Response("ok", PlainBody(h)) ELSE Response("ok", ZBody(h))

\* A Repository right after Repository::new: no catalog resident, the tag of
\* the manifest's revision current, the history database in the cache.
InitRepo ==
    /\ host \in RepoHostStates
    /\ \E v0 \in Variants(HRoot), v1 \in Variants(H1), v2 \in Variants(H2) :
           LET var == (HRoot :> v0) @@ (H1 :> v1) @@ (H2 :> v2)
           IN  /\ images = [h \in RepoHashes |-> ImageOf(h, var[h])]
               /\ server = [n \in RepoNames |->
                               IF \E h \in RepoHashes :
                                      n = compose_object_path(h, CATALOG_ROOT_PREFIX)
                               THEN LET h == CHOOSE g \in RepoHashes :
                                               n = compose_object_path(g, CATALOG_ROOT_PREFIX)
                                    IN  ServedFor(h, var[h])
                               ELSE Response("ok", ZBody(n))]
    /\ cache = [n \in RepoNames |-> IF n = HistoryName THEN PlainBody(n) ELSE NoFile]
    /\ data_dir = TRUE
    /\ ret = NoCall
    /\ succeeded = {}
    /\ opened_catalogs = <<>>
    /\ tag = RevisionTag(1)
    /\ call = NoRepoCall
    /\ out = NoOut
    /\ rcs = <<>>
    /\ needle = <<>> /\ nested = <<>> /\ found = Pending
    /\ ChunkIdle
    /\ RestIdle

Out(kind, err, catalog, entry, listing, gets) ==
    [op |-> call.op, arg |-> call.path, kind |-> kind, err |-> err,
     catalog |-> catalog, root |-> call.root, entry |-> entry, listing |-> listing,
     gets |-> gets, reader |-> NoReader]

\* The call returns to its caller.
Return(o, opened, c, log) ==
    /\ out' = o
    /\ call' = NoRepoCall
    /\ opened_catalogs' = opened
    /\ cache' = c
    /\ rcs' = log
    /\ UNCHANGED tag

\* Repository::lookup, get_file and list_directory begin: the descent starts
\* at the root hash of the current tag.  lookup turns "/" into "".
Begin(op, path) ==
    /\ call.op = "none"
    /\ call' = [op |-> op, path |-> path,
                needle |-> IF path = PRoot THEN <<>> ELSE path,
                hash |-> tag.hash, stage |-> 1, matched |-> 0, root |-> <<>>,
                iter |-> 0]
    /\ rcs' = <<>>
    /\ out' = NoOut
    /\ UNCHANGED <<opened_catalogs, cache, tag>>

\* Repository::retrieve_object.  An entry for which has_chunks() holds gives
\* a ChunkedFile over its chunks and fetches nothing; any other entry gives
\* the file of its one object.  compose_object_path panics on a hash string
\* that cannot be split after its second byte.
retrieve_object(wd, dirent) ==
    IF has_chunks(dirent)
    THEN IF \E i \in 1..Len(dirent.chunks) :
                ~SliceOk(Chunk_content_hash_string(dirent.chunks[i]), 2)
         THEN ObjectResult("Panic", "", wd.cache, <<>>, NoReader)
         ELSE ObjectResult("Ok", "", wd.cache, <<>>,
                  Reader("ChunkedFile", None,
                         [i \in 1..Len(dirent.chunks) |->
                             Chunk(compose_object_path(
                                       Chunk_content_hash_string(dirent.chunks[i]), <<>>),
                                   dirent.chunks[i].offset, dirent.chunks[i].size)],
                         dirent.size))
    ELSE IF ~SliceOk(content_hash_string(dirent).value, 2)
         THEN ObjectResult("Panic", "", wd.cache, <<>>, NoReader)
         ELSE LET f == retrieve_object_with_suffix(wd, content_hash_string(dirent).value,
                                                   <<>>)
              IN  IF f.ok
                  THEN ObjectResult("Ok", "", f.cache, f.gets,
                                    Reader("File", f.path, <<>>, 0))
                  ELSE ObjectResult("Err", "IO", f.cache, f.gets, NoReader)

\* The characters of names in the order of their first bytes; "E" stands for
\* a character of two bytes, whose first byte is above every ASCII byte.
ByteOrder ==
    <<"-", ".", "/", "0", "1", "2", "3", "4", "5", "6", "7", "8", "9", "C", "H", "N",
      "S", "a", "b", "c", "d", "f", "h", "l", "n", "q", "r", "s", "x", "E">>

ByteRank(c) == CHOOSE i \in 1..Len(ByteOrder) : ByteOrder[i] = c

\* The BINARY collation of SQLite on two names: memcmp, then the length.
RECURSIVE NameLess(_, _)
NameLess(a, b) ==
    IF b = <<>> THEN FALSE
    ELSE IF a = <<>> THEN TRUE
    ELSE IF Head(a) # Head(b) THEN ByteRank(Head(a)) < ByteRank(Head(b))
    ELSE NameLess(Tail(a), Tail(b))

\* The name column of the row of a path: the last component of the path.
NameOf(path) ==
    IF path = <<>> THEN <<>>
    ELSE SubSeq(path,
                1 + CHOOSE k \in 0..Len(path) :
                        /\ k = 0 \/ path[k] = "/"
                        /\ \A j \in (k + 1)..Len(path) : path[j] # "/",
                Len(path))

\* ORDER BY name ASC of LISTING_QUERY over a set of rows, each row given by
\* its path.
RECURSIVE OrderByName(_)
OrderByName(paths) ==
    IF paths = {} THEN <<>>
    ELSE LET first == CHOOSE e \in paths :
                          \A o \in paths \ {e} : NameLess(NameOf(e), NameOf(o))
         IN  <<first>> \o OrderByName(paths \ {first})

\* Catalog::list_directory: the rows whose parent key is the hash of the
\* canonicalized path, "/" hashed as the empty string, ordered by name.
list_directory(catalog, path, h, imgs) ==
    LET canonical == canonicalize_path(h, path)
        real_path == IF canonical = PRoot THEN <<>> ELSE canonical
        rows == imgs[catalog.database].entries
    IN  OrderByName({e \in DOMAIN rows : rows[e].parent = real_path})

\* The catalog best_fit answers: the rest of lookup, get_file and
\* list_directory after retrieve_catalog_for_path has returned it.
Answer(best_fit, opened, c, log, gets, net) ==
    LET found_entry == find_directory_entry(best_fit, call.needle, host, images)
        object == retrieve_object(World(c, net), found_entry.entry)
    IN  IF call.stage = 2
        THEN Return(Out("Ok", "", best_fit.hash, NoEntry,
                        list_directory(best_fit, call.path, host, images), gets),
                    opened, c, log)
        ELSE IF ~found_entry.ok
        THEN Return(Out("Err", found_entry.err, best_fit.hash, NoEntry, <<>>, gets),
                    opened, c, log)
        ELSE IF call.op = "lookup"
        THEN Return(Out("Ok", "", best_fit.hash, found_entry.entry, <<>>, gets),
                    opened, c, log)
        ELSE IF call.op = "get_file"
        THEN IF ~is_file(found_entry.entry)
             THEN Return(Out("Err", "NotAFile", best_fit.hash, found_entry.entry, <<>>,
                             gets), opened, c, log)
             ELSE Return([Out(object.kind, object.err, best_fit.hash,
                              found_entry.entry, <<>>, gets \o object.gets)
                              EXCEPT !.reader = object.reader],
                         opened, object.cache, log)
        ELSE IF ~is_directory(found_entry.entry)
        THEN Return(Out("Err", "FileNotFound", best_fit.hash, found_entry.entry, <<>>,
                        gets), opened, c, log)
        ELSE /\ call' = [call EXCEPT !.needle = call.path, !.hash = tag.hash,
                                     !.stage = 2, !.matched = 0, !.root = <<>>,
                                     !.iter = 0]
             /\ opened_catalogs' = opened
             /\ cache' = c
             /\ rcs' = log
             /\ UNCHANGED <<out, tag>>

\* One iteration of the loop of Repository::retrieve_catalog_for_path and,
\* when the loop returns, the rest of the operation that called it.
Descend ==
    /\ call.op # "none"
    /\ call.iter < MaxDescent
    /\ \E net \in NetChoices :
           LET rc == retrieve_catalog(opened_catalogs, World(cache, net), call.hash)
               nest == find_nested_for_path(list_nested(rc.catalog, images),
                                            call.needle, host)
               again == retrieve_catalog(rc.opened, World(rc.cache, net), call.hash)
           IN  IF ~rc.ok
               THEN Return(Out("Err", rc.err, <<>>, NoEntry, <<>>, rc.gets), rc.opened,
                           rc.cache, <<rc>>)
               ELSE IF nest.kind = "Panic"
               THEN Return(Out("Panic", "", <<>>, NoEntry, <<>>, rc.gets), rc.opened,
                           rc.cache, <<rc>>)
               ELSE IF nest.kind = "Some"
               THEN /\ call' = [call EXCEPT !.hash = nest.ref.catalog_hash,
                                            !.matched = StrByteLen(nest.ref.root_path),
                                            !.root = nest.ref.root_path,
                                            !.iter = call.iter + 1]
                    /\ opened_catalogs' = rc.opened
                    /\ cache' = rc.cache
                    /\ rcs' = <<rc>>
                    /\ UNCHANGED <<out, tag>>
               ELSE Answer(again.catalog, again.opened, again.cache, <<rc, again>>,
                           rc.gets \o again.gets, net)
    /\ UNCHANGED <<host, server, images, data_dir, ret, succeeded, nestedVars,
                   chunkVars, restVars>>

Lookup(path) ==
    /\ Begin("lookup", path)
    /\ UNCHANGED <<host, server, images, data_dir, ret, succeeded, nestedVars,
                   chunkVars, restVars>>

GetFile(path) ==
    /\ Begin("get_file", path)
    /\ UNCHANGED <<host, server, images, data_dir, ret, succeeded, nestedVars,
                   chunkVars, restVars>>

ListDirectory(path) ==
    /\ Begin("list_directory", path)
    /\ UNCHANGED <<host, server, images, data_dir, ret, succeeded, nestedVars,
                   chunkVars, restVars>>

\* A call of Repository::retrieve_catalog by the owner of the Repository.
RetrieveCatalog(hash) ==
    /\ call.op = "none"
    /\ \E net \in NetChoices :
           LET rc == retrieve_catalog(opened_catalogs, World(cache, net), hash)
           IN  /\ out' = [NoOut EXCEPT !.op = "retrieve_catalog", !.arg = hash,
                                       !.kind = IF rc.ok THEN "Ok" ELSE "Err",
                                       !.err = rc.err, !.catalog = rc.catalog.hash,
                                       !.gets = rc.gets]
               /\ opened_catalogs' = rc.opened
               /\ cache' = rc.cache
               /\ rcs' = <<rc>>
    /\ UNCHANGED <<call, tag, host, server, images, data_dir, ret, succeeded,
                   nestedVars, chunkVars, restVars>>

\* Repository::get_statistics: the statistics of the current root catalog.
GetStatistics ==
    /\ call.op = "none"
    /\ \E net \in NetChoices :
           LET rc == retrieve_catalog(opened_catalogs, World(cache, net), tag.hash)
           IN  /\ out' = [NoOut EXCEPT !.op = "get_statistics",
                                       !.kind = IF rc.ok THEN "Ok" ELSE "Err",
                                       !.err = rc.err, !.catalog = rc.catalog.hash,
                                       !.gets = rc.gets]
               /\ opened_catalogs' = rc.opened
               /\ cache' = rc.cache
               /\ rcs' = <<rc>>
    /\ UNCHANGED <<call, tag, host, server, images, data_dir, ret, succeeded,
                   nestedVars, chunkVars, restVars>>

\* set_current_tag that drops the resident catalogs when it changes the tag.
SetCurrentTag_dropping_catalogs(number) ==
    /\ call.op = "none"
    /\ \E net \in NetChoices :
           LET history_db == retrieve_object_with_suffix(World(cache, net), HistoryHash,
                                                         <<"H">>)
               found_tag == /\ history_db.ok
                            /\ history_db.cache[HistoryName] = PlainBody(HistoryName)
                            /\ number \in DOMAIN HistoryTags
           IN  /\ out' = [NoOut EXCEPT !.op = "set_current_tag", !.arg = <<number>>,
                                       !.kind = IF found_tag THEN "Ok" ELSE "Err",
                                       !.gets = history_db.gets]
               /\ tag' = IF found_tag THEN RevisionTag(number) ELSE tag
               /\ opened_catalogs' = IF found_tag THEN <<>> ELSE opened_catalogs
               /\ cache' = history_db.cache
               /\ rcs' = <<>>
    /\ UNCHANGED <<call, host, server, images, data_dir, ret,
                   succeeded, nestedVars, chunkVars, restVars>>

\* Repository::set_current_tag(number): get_tag retrieves and opens the
\* history database and asks it for the tag of the revision.
SetCurrentTag(number) ==
    /\ call.op = "none"
    /\ \E net \in NetChoices :
           LET history_db == retrieve_object_with_suffix(World(cache, net), HistoryHash,
                                                         <<"H">>)
               opens == history_db.cache[HistoryName] = PlainBody(HistoryName)
               err == IF ~history_db.ok THEN "IO"
                      ELSE IF ~opens THEN "DatabaseError"
                      ELSE IF number \notin DOMAIN HistoryTags THEN "RevisionNotFound"
                      ELSE ""
           IN  /\ out' = [NoOut EXCEPT !.op = "set_current_tag", !.arg = <<number>>,
                                       !.kind = IF err = "" THEN "Ok" ELSE "Err",
                                       !.err = err, !.gets = history_db.gets]
               /\ tag' = IF err = "" THEN RevisionTag(number) ELSE tag
               /\ cache' = history_db.cache
               /\ rcs' = <<>>
    /\ UNCHANGED <<call, opened_catalogs, host, server, images, data_dir, ret,
                   succeeded, nestedVars, chunkVars, restVars>>

NextRepo ==
    \/ \E path \in LookupPaths : Lookup(path)
    \/ \E path \in LookupPaths : GetFile(path)
    \/ \E path \in LookupPaths : ListDirectory(path)
    \/ Descend
    \/ \E hash \in RepoHashes : RetrieveCatalog(hash)
    \/ GetStatistics
    \/ \E number \in 1..3 : SetCurrentTag(number)

SpecRepo == InitRepo /\ [][NextRepo]_vars

C35_WitnessFailed ==
    /\ out.op = "set_current_tag"
    /\ out.kind = "Err"
    /\ tag = RevisionTag(2)
    /\ opened_catalogs # <<>>

\* ------------------------------------------------------- claims C2, C3, C9, C10
\* C2: with the root catalog H0 of the current tag holding the one nested
\* reference {root_path '/a/b', hash H1} and H1 holding none, every lookup
\* that is answered is answered by the catalog with the deepest root-prefix
\* that is a sanitised prefix of the path: lookup('/a/b/c') by H1,
\* lookup('/a/bx') by H0.
C2_LookupAnsweredByDeepestPrefix ==
    (/\ out.op = "lookup"
     /\ out.catalog # <<>>
     /\ tag.hash = HRoot
     /\ images[HRoot].nested = <<CatalogReference(PAB, H1)>>
     /\ images[H1].nested = <<>>)
        => /\ out.arg = PABC => out.catalog = H1
           /\ out.arg = PABX => out.catalog = HRoot
           /\ out.arg \in {PRoot, PAB} => out.catalog = IF out.arg = PAB THEN H1 ELSE HRoot

\* C3: every iteration of the catalog descent that does not return moves to
\* a nested catalog whose matched root_path is strictly longer than the one
\* matched before.
C3_DescentStrictlyDeeper ==
    [][(call.op # "none" /\ call'.op = call.op /\ call'.iter = call.iter + 1)
           => call'.matched > call.matched]_vars

\* The retrieve_catalog calls of the last step began with the map the step
\* began with and ended with the map the step ended with.
RcsOfStep ==
    rcs' # <<>> => /\ rcs'[1].before = opened_catalogs
                   /\ rcs'[Len(rcs')].opened = opened_catalogs'
                   /\ \A i \in 1..(Len(rcs') - 1) : rcs'[i].opened = rcs'[i + 1].before

\* C9: retrieve_catalog(hash) for a hash in the resident map returns the
\* resident Catalog, makes no fetch and opens no database, and no step of
\* any Repository operation removes a hash from the resident map.
C9_ResidentHitAndNeverShrinks ==
    /\ [](\A i \in 1..Len(rcs) :
              rcs[i].hash \in DOMAIN rcs[i].before
                  => /\ rcs[i].ok
                     /\ rcs[i].catalog = rcs[i].before[rcs[i].hash]
                     /\ rcs[i].fetches = <<>>
                     /\ rcs[i].opens = <<>>
                     /\ rcs[i].gets = <<>>
                     /\ rcs[i].opened = rcs[i].before)
    /\ [][/\ RcsOfStep
          /\ DOMAIN opened_catalogs \subseteq DOMAIN opened_catalogs'
          /\ \A h \in DOMAIN opened_catalogs : opened_catalogs'[h] = opened_catalogs[h]]_vars

\* A lookup found its catalog resident while another catalog was resident too.
C9_Witness ==
    /\ out.op = "lookup"
    /\ out.kind = "Ok"
    /\ rcs # <<>>
    /\ rcs[1].hash \in DOMAIN rcs[1].before
    /\ Cardinality(DOMAIN opened_catalogs) >= 2

\* C10: a retrieve_catalog(hash) that fails leaves the resident map as it
\* was before the call: hash is not a key and every earlier entry is there.
C10_FailureLeavesMap ==
    \A i \in 1..Len(rcs) :
        ~rcs[i].ok => /\ rcs[i].opened = rcs[i].before
                      /\ rcs[i].hash \notin DOMAIN rcs[i].opened
                      /\ i = Len(rcs) => /\ opened_catalogs = rcs[i].before
                                         /\ rcs[i].hash \notin DOMAIN opened_catalogs

\* Catalog construction failed for a fetched catalog while other catalogs
\* were resident.
C10_Witness ==
    /\ rcs # <<>>
    /\ ~rcs[Len(rcs)].ok
    /\ rcs[Len(rcs)].err = "CatalogInitialization"
    /\ rcs[Len(rcs)].opens # <<>>
    /\ Cardinality(DOMAIN opened_catalogs) >= 2

\* ------------------------------------------------------------- claim C13
\* The positions in a GET log of the requests for data objects.
ObjectGets(gets) ==
    {i \in 1..Len(gets) :
        ~\E h \in RepoHashes : gets[i].name = compose_object_path(h, CATALOG_ROOT_PREFIX)}

\* C13: get_file(p) returns NotAFile when lookup(p) gave an entry whose File
\* flag is not set, and FileNotFound when the catalog that answers holds no
\* row for p; in both cases it requests no data object and creates no reader.
C13_GetFileRefusesWithoutFetch ==
    (out.op = "get_file" /\ out.catalog # <<>>)
        => LET p == IF out.arg = PRoot THEN <<>> ELSE out.arg
           IN  /\ (out.entry # NoEntry /\ ~is_file(out.entry))
                      => /\ out.kind = "Err" /\ out.err = "NotAFile"
                         /\ ObjectGets(out.gets) = {} /\ out.reader = NoReader
               /\ p \notin DOMAIN images[out.catalog].entries
                      => /\ out.kind = "Err" /\ out.err = "FileNotFound"
                         /\ ObjectGets(out.gets) = {} /\ out.reader = NoReader

\* ------------------------------- specification: entries and their objects
MaxAlgorithmBits == 3

MaxChunkRows == 2

\* The flags of the row of /a/bx: a file under each value of the algorithm
\* bits, a directory, a symbolic link.
ObjectFlags ==
    {Flags_File + (Flags_ContentHashTypes \div 7) * k : k \in 0..MaxAlgorithmBits}
        \cup {Flags_Directory, Flags_Link}

\* The hash column of the row: NULL, the hash of an object, an empty blob
\* (encode_hex gives two characters for every byte).
ObjectHashes == {Absent, Some(FileHash), Some(<<>>)}

\* The rows of the chunks table with the md5path of /a/bx, in table order.
ChunkRows ==
    {ChunkRow(0, 1, ChunkHash(1)), ChunkRow(1, 1, ChunkHash(2)), ChunkRow(1, 1, <<>>)}

ObjectRows ==
    {Row(flags, hash, Len(rows), PA, rows) :
        flags \in ObjectFlags, hash \in ObjectHashes,
        rows \in SeqsUpTo(ChunkRows, MaxChunkRows)}

ObjectNames ==
    {compose_object_path(HRoot, CATALOG_ROOT_PREFIX)}
        \cup {compose_object_path(s, <<>>) :
                 s \in {str \in {h.value \o hash_suffix(t) :
                                    h \in ObjectHashes, t \in {"Sha1", "Ripemd160"}} :
                            SliceOk(str, 2)}}

\* A Repository whose root catalog has no nested catalogs and holds a row
\* for /a/bx; nothing is cached or resident.
InitObject ==
    /\ host = {}
    /\ \E row \in ObjectRows :
           images = (HRoot :> [kind |-> "catalog", revision |-> 1, schema |-> 1,
                               nested |-> <<>>,
                               entries |-> (<<>> :> Entry("dir", <<>>, <<"-">>))
                                               @@ (PABX :> row)])
    /\ server = [n \in ObjectNames |->
                    IF n = compose_object_path(HRoot, CATALOG_ROOT_PREFIX)
                    THEN Response("ok", ZBody(HRoot))
                    ELSE Response("ok", ZBody(n))]
    /\ cache = [n \in ObjectNames |-> NoFile]
    /\ data_dir = TRUE
    /\ ret = NoCall
    /\ succeeded = {}
    /\ opened_catalogs = <<>>
    /\ tag = RevisionTag(1)
    /\ call = NoRepoCall
    /\ out = NoOut
    /\ rcs = <<>>
    /\ needle = <<>> /\ nested = <<>> /\ found = Pending
    /\ ChunkIdle
    /\ RestIdle

NextObject ==
    \/ Lookup(PABX)
    \/ GetFile(PABX)
    \/ Descend

SpecObject == InitObject /\ [][NextObject]_vars

\* ------------------------------------------------------------- claim C14
\* C14: every DirectoryEntry a lookup returns has a content hash iff its
\* chunk list is empty, and get_file on a file entry returns the file of the
\* one cached object exactly when the chunk list is empty and a ChunkedFile
\* over the entry's chunks, in offset order, exactly when it is not.
C14_HashIffNoChunks ==
    /\ (out.op = "lookup" /\ out.kind = "Ok")
           => (out.entry.content_hash.some <=> out.entry.chunks = <<>>)
    /\ (out.op = "get_file" /\ out.kind = "Ok")
           => /\ out.reader.kind = "File" <=> out.entry.chunks = <<>>
              /\ out.reader.kind = "ChunkedFile" <=> out.entry.chunks # <<>>
              /\ out.reader.kind = "ChunkedFile"
                     => /\ Len(out.reader.chunks) = Len(out.entry.chunks)
                        /\ \A i \in 1..Len(out.reader.chunks) :
                               /\ out.reader.chunks[i].offset = out.entry.chunks[i].offset
                               /\ i > 1 => out.reader.chunks[i - 1].offset
                                               <= out.reader.chunks[i].offset

\* ------------------------------------------------------------- claim C15
\* C15: get_file of a file entry whose algorithm bits decode to
\* ContentHashTypes::Unknown returns an error, requests no data object and
\* creates no reader.
C15_UnknownHashTypeRefused ==
    (/\ out.op = "get_file"
     /\ out.entry # NoEntry
     /\ is_file(out.entry)
     /\ out.entry.content_hash_type = "Unknown")
        => /\ out.kind = "Err"
           /\ ObjectGets(out.gets) = {}
           /\ out.reader = NoReader

\* ------------------------------------- Repository operations, run to the end
\* The outcome of a Repository operation that ran to its end: Ok, Err, Panic
\* (the thread unwinds) or Hang (the loop of retrieve_catalog_for_path does
\* not return within MaxDescent iterations).
RunResult(kind, err, catalog, entry, listing, reader, opened, c, gets) ==
    [kind |-> kind, err |-> err, catalog |-> catalog, entry |-> entry,
     listing |-> listing, reader |-> reader, opened |-> opened, cache |-> c,
     gets |-> gets]

\* Repository::retrieve_catalog_for_path from the catalog hash on, with fuel
\* iterations left.  retrieve_catalog of a hash that is not resident builds
\* the object path and panics when the hash cannot be split after two bytes.
\* DescentStep is one iteration of the loop on the outcome rc of
\* retrieve_catalog; DescentNext is the match on the outcome nest of
\* find_nested_for_path.
RECURSIVE retrieve_catalog_for_path(_, _, _, _, _)
DescentGoOn(rc, deeper) == [deeper EXCEPT !.gets = rc.gets \o @]

DescentNext(rc, nest, wd, needle_path, fuel) ==
    IF nest.kind = "Panic"
    THEN RunResult("Panic", "", NoCatalog, NoEntry, <<>>, NoReader, rc.opened, rc.cache,
                   rc.gets)
    ELSE IF nest.kind = "Some"
    THEN DescentGoOn(rc, retrieve_catalog_for_path(rc.opened,
                                                   [wd EXCEPT !.cache = rc.cache],
                                                   needle_path, nest.ref.catalog_hash,
                                                   fuel - 1))
    ELSE RunResult("Ok", "", rc.catalog, NoEntry, <<>>, NoReader, rc.opened, rc.cache,
                   rc.gets)

DescentStep(rc, wd, needle_path, fuel) ==
    IF ~rc.ok
    THEN RunResult("Err", rc.err, NoCatalog, NoEntry, <<>>, NoReader, rc.opened, rc.cache,
                   rc.gets)
    ELSE DescentNext(rc, find_nested_for_path(list_nested(rc.catalog, wd.imgs),
                                              needle_path, wd.host),
                     wd, needle_path, fuel)

retrieve_catalog_for_path(opened, wd, needle_path, hash, fuel) ==
    IF fuel = 0
    THEN RunResult("Hang", "", NoCatalog, NoEntry, <<>>, NoReader, opened, wd.cache, <<>>)
    ELSE IF hash \notin DOMAIN opened /\ ~SliceOk(hash, 2)
    THEN RunResult("Panic", "", NoCatalog, NoEntry, <<>>, NoReader, opened, wd.cache, <<>>)
    ELSE DescentStep(retrieve_catalog(opened, wd, hash), wd, needle_path, fuel)

\* Repository::lookup with the current tag t.  LookupIn is
\* find_directory_entry on the catalog retrieve_catalog_for_path gave.
LookupFound(best, found_entry) ==
    IF ~found_entry.ok THEN [best EXCEPT !.kind = "Err", !.err = found_entry.err]
    ELSE [best EXCEPT !.entry = found_entry.entry]

LookupIn(best, p, wd) ==
    IF best.kind # "Ok" THEN best
    ELSE LookupFound(best, find_directory_entry(best.catalog, p, wd.host, wd.imgs))

Repository_lookup(opened, wd, t, path) ==
    LookupIn(retrieve_catalog_for_path(opened, wd, IF path = <<"/">> THEN <<>> ELSE path,
                                       t.hash, MaxDescent),
             IF path = <<"/">> THEN <<>> ELSE path, wd)

\* Repository::get_file.  GetFileOf is the rest of get_file after lookup.
GetFileObject(looked, object) ==
    [looked EXCEPT !.kind = object.kind, !.err = object.err, !.reader = object.reader,
                   !.cache = object.cache, !.gets = @ \o object.gets]

GetFileOf(looked, wd) ==
    IF looked.kind # "Ok" THEN looked
    ELSE IF ~is_file(looked.entry)
    THEN [looked EXCEPT !.kind = "Err", !.err = "NotAFile"]
    ELSE GetFileObject(looked,
                       retrieve_object([wd EXCEPT !.cache = looked.cache], looked.entry))

Repository_get_file(opened, wd, t, path) ==
    GetFileOf(Repository_lookup(opened, wd, t, path), wd)

\* Repository::list_directory.  ListOf is the rest of list_directory after
\* lookup, ListIn the rest after the second retrieve_catalog_for_path.
ListIn(looked, best, path, wd) ==
    IF best.kind # "Ok"
    THEN [best EXCEPT !.gets = looked.gets \o @]
    ELSE [best EXCEPT !.entry = looked.entry, !.gets = looked.gets \o @,
                      !.listing = list_directory(best.catalog, path, wd.host, wd.imgs)]

ListOf(looked, wd, t, path) ==
    IF looked.kind # "Ok" THEN looked
    ELSE IF ~is_directory(looked.entry)
    THEN [looked EXCEPT !.kind = "Err", !.err = "FileNotFound"]
    ELSE ListIn(looked,
                retrieve_catalog_for_path(looked.opened,
                                          [wd EXCEPT !.cache = looked.cache], path,
                                          t.hash, MaxDescent),
                path, wd)

Repository_list_directory(opened, wd, t, path) ==
    ListOf(Repository_lookup(opened, wd, t, path), wd, t, path)

\* ------------------------------------------------------ CernvmFileSystem
\* impl From<CvmfsError> for i32: the errno that `?` makes of a CvmfsError.
errno_of(err) == "ENOSYS"

\* What an operation hands to the mount layer.
FsOutcome(kind, errno, err) == [kind |-> kind, errno |-> errno, err |-> err]

\* The errno of an operation that finds the lock of the Repository poisoned:
\* getattr maps the PoisonError to CvmfsError::Generic, readlink and open to
\* CvmfsError::Sync, the others return EIO themselves.
poisoned_errno(op) ==
    IF op \in {"getattr", "readlink", "open"} THEN errno_of("Sync") ELSE "EIO"

\* The rest of each operation once its Repository call r has returned.
getattr_outcome(r) ==
    IF r.kind # "Ok" THEN FsOutcome("Err", errno_of(r.err), r.err)
    ELSE FsOutcome("Ok", "", "")

readlink_outcome(r) ==
    IF r.kind # "Ok" THEN FsOutcome("Err", errno_of(r.err), r.err)
    ELSE IF ~is_symlink(r.entry) THEN FsOutcome("Err", "ENOLINK", "NotALink")
         ELSE FsOutcome("Ok", "", "")

opendir_outcome(r) ==
    IF r.kind # "Ok" THEN FsOutcome("Err", errno_of(r.err), r.err)
    ELSE IF ~is_directory(r.entry) THEN FsOutcome("Err", "ENOENT", "NotADirectory")
         ELSE FsOutcome("Ok", "", "")

access_outcome(r) ==
    IF r.kind # "Ok" THEN FsOutcome("Err", errno_of(r.err), r.err)
    ELSE FsOutcome("Ok", "", "")

\* open: lookup, the test of the File flag, then get_file.
AfterLookup(looked, later) == [later EXCEPT !.gets = looked.gets \o @]

OpenOf(looked, wd, t, path) ==
    IF looked.kind # "Ok" \/ ~is_file(looked.entry) THEN looked
    ELSE AfterLookup(looked,
                     Repository_get_file(looked.opened,
                                         [wd EXCEPT !.cache = looked.cache], t, path))

open_call(opened, wd, t, path) ==
    OpenOf(Repository_lookup(opened, wd, t, path), wd, t, path)

open_outcome(r, locks) ==
    IF r.kind # "Ok" THEN FsOutcome("Err", errno_of(r.err), r.err)
    ELSE IF ~is_file(r.entry) THEN FsOutcome("Err", "ENOENT", "NotAFile")
    ELSE IF "opened_files" \in locks THEN FsOutcome("Err", errno_of("Sync"), "Poisoned")
    ELSE FsOutcome("Ok", "", "")

\* readdir: lookup, the test of the Directory flag, then list_directory.
ReaddirOf(looked, wd, t, path) ==
    IF looked.kind # "Ok" \/ ~is_directory(looked.entry) THEN looked
    ELSE AfterLookup(looked,
                     Repository_list_directory(looked.opened,
                                               [wd EXCEPT !.cache = looked.cache], t,
                                               path))

readdir_call(opened, wd, t, path) ==
    ReaddirOf(Repository_lookup(opened, wd, t, path), wd, t, path)

readdir_outcome(r) ==
    IF r.kind # "Ok" THEN FsOutcome("Err", errno_of(r.err), r.err)
    ELSE IF ~is_directory(r.entry) THEN FsOutcome("Err", "ENOENT", "NotADirectory")
         ELSE FsOutcome("Ok", "", "")

statfs_outcome(r) ==
    IF r.kind # "Ok" THEN FsOutcome("Err", errno_of(r.err), r.err)
    ELSE FsOutcome("Ok", "", "")

\* statfs: Repository::get_statistics on the root catalog of the tag.
StatisticsOf(rc) ==
    RunResult(IF rc.ok THEN "Ok" ELSE "Err", rc.err, rc.catalog, NoEntry, <<>>, NoReader,
              rc.opened, rc.cache, rc.gets)

statfs_call(opened, wd, t) ==
    IF t.hash \notin DOMAIN opened /\ ~SliceOk(t.hash, 2)
    THEN RunResult("Panic", "", NoCatalog, NoEntry, <<>>, NoReader, opened, wd.cache, <<>>)
    ELSE StatisticsOf(retrieve_catalog(opened, wd, t.hash))

\* --------------------------------------- specification: CernvmFileSystem
PEE == <<"/", "E", "E">>

PEEA == <<"/", "E", "E", "/", "a">>

PAF == <<"/", "a", "/", "f">>

PAL == <<"/", "a", "/", "l">>

PAS == <<"/", "a", "/", "s">>

PAN == <<"/", "a", "/", "n">>

\* The paths the mount layer asks for: the root, a directory, a file, a
\* symbolic link, a file whose hash column is an empty blob, a path the
\* repository does not have, a path with characters of two bytes.
FsPaths == {PRoot, PA, PAF, PAL, PAS, PAN, PEEA}

FsHashes == {HRoot, H1}

FsNames ==
    {compose_object_path(h, CATALOG_ROOT_PREFIX) : h \in FsHashes}
        \cup {compose_object_path(FileHash, <<>>)}

\* The catalog table of the root catalog.
FsEntries ==
    (<<>> :> Entry("dir", <<>>, <<"-">>)) @@ (PA :> Entry("dir", <<>>, <<>>))
        @@ (PAF :> Entry("file", FileHash, PA))
        @@ (PAL :> Row(Flags_Link, Absent, 0, PA, <<>>))
        @@ (PAS :> Row(Flags_File, Some(<<>>), 0, PA, <<>>))

\* The nested_catalogs table of the root catalog: empty, a catalog mounted
\* at /EE, or a catalog at /a/n whose sha1 column holds one character.
FsNested ==
    {<<>>, <<CatalogReference(PEE, H1)>>, <<CatalogReference(PAN, <<"a">>)>>}

\* A mounted CernvmFileSystem (CernvmFileSystem::new): no lock is poisoned,
\* no file is open, no catalog is resident.
InitFs ==
    /\ host = {}
    /\ \E tbl \in FsNested :
           images = (HRoot :> [kind |-> "catalog", revision |-> 1, schema |-> 1,
                               nested |-> tbl, entries |-> FsEntries])
                       @@ (H1 :> [kind |-> "catalog", revision |-> 1, schema |-> 1,
                                  nested |-> <<>>,
                                  entries |-> (PEE :> Entry("dir", <<>>, <<>>))])
    /\ server = [n \in FsNames |->
                    IF \E h \in FsHashes : n = compose_object_path(h, CATALOG_ROOT_PREFIX)
                    THEN Response("ok", ZBody(CHOOSE h \in FsHashes :
                                      n = compose_object_path(h, CATALOG_ROOT_PREFIX)))
                    ELSE Response("ok", ZBody(n))]
    /\ cache = [n \in FsNames |-> NoFile]
    /\ data_dir = TRUE
    /\ ret = NoCall
    /\ succeeded = {}
    /\ opened_catalogs = <<>>
    /\ tag = [revision |-> 1, hash |-> HRoot]
    /\ call = NoRepoCall
    /\ out = NoOut
    /\ rcs = <<>>
    /\ needle = <<>> /\ nested = <<>> /\ found = Pending
    /\ ChunkIdle
    /\ RootIdle /\ BootIdle /\ TreeIdle /\ PureIdle /\ ThreadIdle
    /\ poisoned = {}
    /\ opened_files = {}
    /\ fsret = NoFsRet

FsRet(op, path, o) ==
    [op |-> op, path |-> path, kind |-> o.kind, errno |-> o.errno, err |-> o.err]

\* What each operation returns once its Repository call r has returned.
outcome_of(op, r, locks) ==
    CASE op = "getattr" -> getattr_outcome(r)
      [] op = "readlink" -> readlink_outcome(r)
      [] op = "open" -> open_outcome(r, locks)
      [] op = "opendir" -> opendir_outcome(r)
      [] op = "readdir" -> readdir_outcome(r)
      [] op = "statfs" -> statfs_outcome(r)
      [] op = "access" -> access_outcome(r)

\* An operation that takes the write lock of the Repository and calls it: r
\* is what the call does.  A poisoned lock is refused; a call that panics
\* unwinds through the guard and poisons the lock; a call that does not
\* return keeps the lock.  open inserts the file into opened_files.
WithRepository(op, path, r) ==
    /\ fsret.kind # "Hang"
    /\ IF "repository" \in poisoned
       THEN /\ fsret' = FsRet(op, path, FsOutcome("Err", poisoned_errno(op), "Poisoned"))
            /\ UNCHANGED <<poisoned, opened_files, opened_catalogs, cache>>
       ELSE /\ opened_catalogs' = r.opened
            /\ cache' = r.cache
            /\ IF r.kind \in {"Panic", "Hang"}
               THEN /\ fsret' = FsRet(op, path, FsOutcome(r.kind, "", ""))
                    /\ poisoned' = IF r.kind = "Panic" THEN poisoned \cup {"repository"}
                                   ELSE poisoned
                    /\ UNCHANGED opened_files
               ELSE /\ fsret' = FsRet(op, path, outcome_of(op, r, poisoned))
                    /\ poisoned' = poisoned
                    /\ opened_files' =
                           IF op = "open" /\ outcome_of(op, r, poisoned).kind = "Ok"
                           THEN opened_files \cup {path} ELSE opened_files
    /\ UNCHANGED <<host, server, images, data_dir, ret, succeeded, tag, call, out, rcs,
                   nestedVars, chunkVars, rootVars, pureVars, threadVars, bootVars, treeVars>>

\* An operation that does not touch the Repository.
WithoutRepository(op, path, done, files) ==
    /\ fsret' = FsRet(op, path, done)
    /\ opened_files' = files
    /\ UNCHANGED <<poisoned, opened_catalogs, cache, host, server, images, data_dir, ret,
                   succeeded, tag, call, out, rcs, nestedVars, chunkVars, rootVars, pureVars,
                   threadVars,
                   bootVars, treeVars>>

Getattr(path) ==
    \E net \in NetChoices :
        WithRepository("getattr", path,
                       Repository_lookup(opened_catalogs, World(cache, net), tag, path))

Readlink(path) ==
    \E net \in NetChoices :
        WithRepository("readlink", path,
                       Repository_lookup(opened_catalogs, World(cache, net), tag, path))

Open(path) ==
    \E net \in NetChoices :
        WithRepository("open", path,
                       open_call(opened_catalogs, World(cache, net), tag, path))

Flush(path) == WithoutRepository("flush", path, FsOutcome("Ok", "", ""), opened_files)

Release(path) ==
    WithoutRepository("release", path,
                      IF "opened_files" \in poisoned
                      THEN FsOutcome("Err", "EIO", "Poisoned")
                      ELSE IF path \notin opened_files
                           THEN FsOutcome("Err", "ENOENT", "NotOpen")
                           ELSE FsOutcome("Ok", "", ""),
                      IF "opened_files" \in poisoned THEN opened_files
                      ELSE opened_files \ {path})

Opendir(path) ==
    \E net \in NetChoices :
        WithRepository("opendir", path,
                       Repository_lookup(opened_catalogs, World(cache, net), tag, path))

Readdir(path) ==
    \E net \in NetChoices :
        WithRepository("readdir", path,
                       readdir_call(opened_catalogs, World(cache, net), tag, path))

Releasedir(path) ==
    WithoutRepository("releasedir", path, FsOutcome("Ok", "", ""), opened_files)

Statfs(path) ==
    \E net \in NetChoices :
        WithRepository("statfs", path,
                       statfs_call(opened_catalogs, World(cache, net), tag))

Getxattr(path) ==
    WithoutRepository("getxattr", path, FsOutcome("Err", "ENODATA", "NoXattr"),
                      opened_files)

Access(path) ==
    \E net \in NetChoices :
        WithRepository("access", path,
                       Repository_lookup(opened_catalogs, World(cache, net), tag, path))

NextFs ==
    \E path \in FsPaths :
        \/ Getattr(path)
        \/ Readlink(path)
        \/ Open(path)
        \/ Flush(path)
        \/ Release(path)
        \/ Opendir(path)
        \/ Readdir(path)
        \/ Releasedir(path)
        \/ Statfs(path)
        \/ Getxattr(path)
        \/ Access(path)

SpecFs == InitFs /\ [][NextFs]_vars

\* ------------------------------------------------------------- claim C18
\* C18: after any operation has failed, the mount stays usable: no failure
\* aborts a worker that holds the lock of the Repository or of the open
\* files, so no lock is ever poisoned and no operation is refused for a
\* poisoned lock.
C18_NoLockPoisoned ==
    /\ poisoned = {}
    /\ fsret.kind \in {"", "Ok", "Err"}
    /\ fsret.err # "Poisoned"

\* ------------------------------------------------------------- claim C19
\* C19: a failed operation's errno follows the kind of the error: ENOENT for
\* a path the repository does not have, ENOLINK for readlink on an entry
\* that is no link, ENODATA for getxattr, EIO for IO errors, database
\* errors and poisoned locks, ENOSYS only for the remaining errors.
C19_ErrnoByKind ==
    fsret.kind = "Err" =>
        /\ fsret.err = "FileNotFound" => fsret.errno = "ENOENT"
        /\ fsret.err = "NotALink" => fsret.errno = "ENOLINK"
        /\ fsret.op = "getxattr" => fsret.errno = "ENODATA"
        /\ fsret.err \in {"IO", "DatabaseError", "Poisoned"} => fsret.errno = "EIO"
        /\ fsret.errno = "ENOSYS" =>
               fsret.err \notin {"FileNotFound", "NotALink", "NoXattr", "IO",
                                 "DatabaseError", "Poisoned"}

\* ------------------------------------- specification: list_directory
PB == <<"/", "b">>

PAX == <<"/", "a", "/", "x">>

PAC == <<"/", "a", "/", "c">>

PN == <<"/", "n">>

\* The paths asked for: the root, a directory with entries, an empty
\* directory, a file, a path the repository does not have.
ListPaths == {PRoot, PA, PB, PAX, PN}

\* The catalog table of the root catalog and of the catalog nested at /a.
ListEntries(h) ==
    IF h = HRoot
    THEN (<<>> :> Entry("dir", <<>>, <<"-">>)) @@ (PA :> Entry("dir", <<>>, <<>>))
            @@ (PB :> Entry("dir", <<>>, <<>>)) @@ (PAX :> Entry("file", FileHash, PA))
            @@ (PAB :> Entry("file", FileHash, PA))
    ELSE (PA :> Entry("dir", <<>>, <<>>)) @@ (PAC :> Entry("file", FileHash, PA))

\* The nested_catalogs table of the root catalog: empty, or H1 mounted at /a.
ListNested == {<<>>, <<CatalogReference(PA, H1)>>}

\* The host has nothing at the repository's paths, or has /a as a symbolic
\* link to /b.
ListHostStates == { {}, {HostEntry(PA, PB)} }

ListNames == {compose_object_path(h, CATALOG_ROOT_PREFIX) : h \in {HRoot, H1}}

\* A Repository right after Repository::new on the tag of HRoot.
InitList ==
    /\ host \in ListHostStates
    /\ \E tbl \in ListNested :
           images = [h \in {HRoot, H1} |->
                        [kind |-> "catalog", revision |-> 1, schema |-> 1,
                         nested |-> IF h = HRoot THEN tbl ELSE <<>>,
                         entries |-> ListEntries(h)]]
    /\ server = [n \in ListNames |->
                    Response("ok", ZBody(CHOOSE h \in {HRoot, H1} :
                                             n = compose_object_path(h, CATALOG_ROOT_PREFIX)))]
    /\ cache = [n \in ListNames |-> NoFile]
    /\ data_dir = TRUE
    /\ ret = NoCall
    /\ succeeded = {}
    /\ opened_catalogs = <<>>
    /\ tag = [revision |-> 1, hash |-> HRoot]
    /\ call = NoRepoCall
    /\ out = NoOut
    /\ rcs = <<>>
    /\ needle = <<>> /\ nested = <<>> /\ found = Pending
    /\ ChunkIdle
    /\ RestIdle

\* A Repository call that ran to its end with the outcome r.
Ran(op, path, r) ==
    /\ out' = [NoOut EXCEPT !.op = op, !.arg = path, !.kind = r.kind, !.err = r.err,
                            !.catalog = r.catalog.hash, !.entry = r.entry,
                            !.listing = r.listing, !.gets = r.gets]
    /\ opened_catalogs' = r.opened
    /\ cache' = r.cache
    /\ UNCHANGED <<call, tag, rcs, host, server, images, data_dir, ret, succeeded,
                   nestedVars, chunkVars, restVars>>

RunLookup(path) ==
    \E net \in NetChoices :
        Ran("lookup", path,
            Repository_lookup(opened_catalogs, World(cache, net), tag, path))

RunListDirectory(path) ==
    \E net \in NetChoices :
        Ran("list_directory", path,
            Repository_list_directory(opened_catalogs, World(cache, net), tag, path))

NextList ==
    \E path \in ListPaths :
        \/ RunLookup(path)
        \/ RunListDirectory(path)

SpecList == InitList /\ [][NextList]_vars

\* ------------------------------------------------------------- claim C23
\* The catalog authoritative for a path: the catalog nested at /a for the
\* paths at and below /a when the root catalog refers to it, else the root
\* catalog.
AuthoritativeFor(p) ==
    IF images[HRoot].nested # <<>> /\ PathStartsWith(p, PA) THEN H1 ELSE HRoot

\* C23: list_directory(p) for a directory p returns exactly the entries of
\* the catalog authoritative for p whose parent is p ("/" taken as the empty
\* path), in ascending order of their names, the empty list for an empty
\* directory; for a p that is no directory it returns an error and lists
\* nothing.  A call fails for a directory only when a catalog cannot be
\* fetched.
C23_ListsChildrenSortedByName ==
    out.op = "list_directory" =>
        LET p == IF out.arg = PRoot THEN <<>> ELSE out.arg
            rows == images[AuthoritativeFor(p)].entries
            kids == {e \in DOMAIN rows : rows[e].parent = p}
        IN  IF p \in DOMAIN rows /\ is_directory(make_directory_entry(rows[p]))
            THEN /\ out.kind = "Err" => out.err = "IO"
                 /\ out.kind = "Ok" =>
                        /\ {out.listing[i] : i \in 1..Len(out.listing)} = kids
                        /\ Len(out.listing) = Cardinality(kids)
                        /\ \A i \in 1..(Len(out.listing) - 1) :
                               NameLess(NameOf(out.listing[i]),
                                        NameOf(out.listing[i + 1]))
            ELSE out.kind = "Err" /\ out.listing = <<>>

\* ------------------------------------------------------------- claim C38
\* C38: with the root catalog referring to the catalog nested at /a, a
\* lookup("/a") that returns an entry is answered by the nested catalog, with
\* the row that catalog holds for /a, never by the root catalog.
C38_MountpointAnsweredByNested ==
    (/\ out.op = "lookup"
     /\ out.arg = PA
     /\ out.kind = "Ok"
     /\ images[HRoot].nested = <<CatalogReference(PA, H1)>>)
        => /\ out.catalog = H1
           /\ out.entry = make_directory_entry(images[H1].entries[PA])

\* ------------------------------------------- specification: entry flags
\* The flags values range over the bits 0 .. FlagsWidth - 1.
FlagsWidth == 12

\* A flags column read from a row of the catalog table.
InitFlags ==
    /\ \E F \in 0..(Pow2(FlagsWidth) - 1) : given = [f |-> "flags", flags |-> F]
    /\ answer = NoAnswer
    /\ host = {}
    /\ needle = <<>> /\ nested = <<>> /\ found = Pending
    /\ FetchIdle
    /\ ChunkIdle
    /\ RepoIdle
    /\ RootIdle /\ BootIdle /\ TreeIdle /\ ShimIdle /\ ThreadIdle

\* The entry DirectoryEntry::new makes of the flags, and what its tests say.
FlagsOf(e) ==
    [f |-> "flags",
     is_directory |-> is_directory(e),
     is_nested_catalog_mountpoint |-> is_nested_catalog_mountpoint(e),
     is_file |-> is_file(e),
     is_symlink |-> is_symlink(e),
     is_nested_catalog_root |-> is_nested_catalog_root(e),
     content_hash_type |-> e.content_hash_type]

DecodeFlags ==
    /\ answer = NoAnswer
    /\ answer' = FlagsOf(DirectoryEntry_new(Row(given.flags, Absent, 0, <<>>, <<>>)))
    /\ UNCHANGED <<given, threadVars, host, nestedVars, fetchVars, chunkVars, repoVars, rootVars,
                   bootVars, treeVars, shimVars>>

NextFlags == DecodeFlags

SpecFlags == InitFlags /\ [][NextFlags]_vars

\* ------------------------------------------------------------- claim C24
\* Bit b of F is set, b given by its value.
BitSet(F, b) == (F \div b) % 2 = 1

\* C24: for every flags value F, is_directory, is_nested_catalog_mountpoint,
\* is_file, is_symlink and is_nested_catalog_root are the tests of the bits
\* 1, 2, 4, 8 and 32 of F, and the decoded hash algorithm is
\* ((F & 0x700) >> 8) + 1 mapped 1 to SHA-1, 2 to RIPEMD-160, 3 to
\* UpperBound and every other value to Unknown.
C24_FlagsDecodeByBit ==
    answer.f = "flags" =>
        LET F == given.flags
            algorithm == ((F \div 256) % 8) + 1
        IN  /\ answer.is_directory = BitSet(F, 1)
            /\ answer.is_nested_catalog_mountpoint = BitSet(F, 2)
            /\ answer.is_file = BitSet(F, 4)
            /\ answer.is_symlink = BitSet(F, 8)
            /\ answer.is_nested_catalog_root = BitSet(F, 32)
            /\ answer.content_hash_type =
                   CASE algorithm = 1 -> "Sha1"
                     [] algorithm = 2 -> "Ripemd160"
                     [] algorithm = 3 -> "UpperBound"
                     [] OTHER -> "Unknown"

\* A file at the root of a nested catalog with a RIPEMD-160 hash, with bits
\* set that no test reads.
C24_Witness ==
    /\ answer.f = "flags"
    /\ given.flags = 4 + 16 + 32 + 256 + 2048
    /\ answer.is_file /\ answer.is_nested_catalog_root /\ ~answer.is_directory
    /\ answer.content_hash_type = "Ripemd160"

\* ------------------------------------------- History::get_tag_by_date
DecDigits == <<"0", "1", "2", "3", "4", "5", "6", "7", "8", "9">>

\* u64::to_string: the decimal digits of n.
RECURSIVE u64_to_string(_)
u64_to_string(n) ==
    IF n < 10 THEN <<DecDigits[n + 1]>>
    ELSE u64_to_string(n \div 10) \o <<DecDigits[(n % 10) + 1]>>

DecValue(c) == CHOOSE k \in 0..9 : DecDigits[k + 1] = c

\* The text parameter compared with the INTEGER column timestamp: SQLite
\* applies numeric affinity to the text and compares numbers.
RECURSIVE numeric_affinity(_)
numeric_affinity(text) ==
    IF text = <<>> THEN 0
    ELSE numeric_affinity(SubSeq(text, 1, Len(text) - 1)) * 10
             + DecValue(text[Len(text)])

\* A row of the tags table: name and timestamp of the columns RevisionTag::new reads.
DatedTag(name, timestamp) == [name |-> name, timestamp |-> timestamp]

NoDatedTag == DatedTag(<<>>, 0)

\* SQL_QUERY_DATE with >= in the place of >.
SQL_QUERY_DATE_inclusive(tags, param) ==
    LET later == {r \in tags : r.timestamp >= numeric_affinity(param)}
    IN  {r \in later : \A o \in later : r.timestamp <= o.timestamp}

\* SQL_QUERY_DATE: WHERE timestamp > ? ORDER BY timestamp ASC LIMIT 1.  The
\* rows the query can put first: rows with the same timestamp come in either
\* order.
SQL_QUERY_DATE(tags, param) ==
    LET later == {r \in tags : r.timestamp > numeric_affinity(param)}
    IN  {r \in later : \A o \in later : r.timestamp <= o.timestamp}

\* History::get_tag_by_query: rows.next() is None or the first row.
get_tag_by_query(firsts) ==
    IF firsts = {}
    THEN {[f |-> "get_tag_by_date", some |-> FALSE, tag |-> NoDatedTag]}
    ELSE {[f |-> "get_tag_by_date", some |-> TRUE, tag |-> r] : r \in firsts}

\* History::get_tag_by_date: the results the call can return.
get_tag_by_date(tags, timestamp) ==
    get_tag_by_query(SQL_QUERY_DATE(tags, u64_to_string(timestamp)))

\* --------------------------------- specification: History::get_tag_by_date
\* The tags table holds up to MaxTags rows with timestamps up to MaxTimestamp.
MaxTags == 3

MaxTimestamp == 11

TagName(i) == <<"t", ToString(i)>>

\* The tables: each name is absent or has one row (name is the primary key).
TagTables ==
    {{DatedTag(TagName(i), ts[i]) : i \in {k \in 1..MaxTags : ts[k] >= 0}} :
        ts \in [1..MaxTags -> -1..MaxTimestamp]}

InitDate ==
    /\ \E tags \in TagTables, t \in 0..(MaxTimestamp + 1) :
           given = [f |-> "get_tag_by_date", tags |-> tags, timestamp |-> t]
    /\ answer = NoAnswer
    /\ host = {}
    /\ needle = <<>> /\ nested = <<>> /\ found = Pending
    /\ FetchIdle
    /\ ChunkIdle
    /\ RepoIdle
    /\ RootIdle /\ BootIdle /\ TreeIdle /\ ShimIdle /\ ThreadIdle

GetTagByDate ==
    /\ answer = NoAnswer
    /\ answer' \in get_tag_by_date(given.tags, given.timestamp)
    /\ UNCHANGED <<given, threadVars, host, nestedVars, fetchVars, chunkVars, repoVars, rootVars,
                   bootVars, treeVars, shimVars>>

NextDate == GetTagByDate

SpecDate == InitDate /\ [][NextDate]_vars

C25_WitnessNone ==
    /\ answer.f = "get_tag_by_date"
    /\ given.tags # {}
    /\ \A r \in given.tags : r.timestamp <= given.timestamp
    /\ ~answer.some

\* ------------------------------------- specification: CernvmFileSystem threads
\* FuseMT::new(file_system, 5) serves the requests on a pool of threads; the
\* model has MaxWorkers of them and follows each handler from one lock
\* operation or Repository call to the next.
MaxWorkers == 2

\* The reads issued in one behaviour.
MaxReads == 2

Workers == 1..MaxWorkers

RepositoryOps == {"getattr", "readlink", "open", "opendir", "readdir", "statfs", "access"}

\* The path that open, read and release are called on; its file has
\* MaxFileSize bytes, and the reads ask for one byte at its start or its end.
OpenPath == PAF

ReadOffsets == {0, MaxFileSize - 1}

\* RwLock::write that does not wait for the guard to be free.
write_ready_unguarded(g, lock) == TRUE

\* RwLock::write returns once no other thread holds a guard of the lock.
write_ready(g, lock) == g[lock] = 0

\* file.seek(SeekFrom::Current(offset)) in the place of SeekFrom::Start.
SeekFrom_Current(position, offset) == position + offset

\* file.seek(SeekFrom::Start(offset)): the position of the file afterwards.
SeekFrom_Start(position, offset) == offset

\* The guards a thread drops when its handler returns or unwinds.
Dropped(g, t) == [l \in DOMAIN g |-> IF g[l] = t THEN 0 ELSE g[l]]

At(t, at, kind) == [worker EXCEPT ![t].at = at, ![t].kind = kind]

\* The thread is inside a call of the Repository.
InRepository(t) ==
    worker[t].at \in {"lookup", "get_file", "list_directory", "get_statistics"}

InitWorkers ==
    /\ worker = [t \in Workers |-> NoWorker]
    /\ guard = NoGuard
    /\ fh = NoHandle
    /\ poisoned = {}
    /\ opened_files \in {{}, {OpenPath}}
    /\ fsret = NoFsRet
    /\ host = {}
    /\ needle = <<>> /\ nested = <<>> /\ found = Pending
    /\ FetchIdle
    /\ ChunkIdle
    /\ RepoIdle
    /\ RootIdle /\ BootIdle /\ TreeIdle /\ PureIdle

WorkerIdle == <<fsret, host, nestedVars, fetchVars, chunkVars, repoVars, rootVars, bootVars,
          treeVars, pureVars>>

\* A thread of the pool takes a request.  A read gets the next ticket.
WorkerIssue(t, op, offset) ==
    /\ worker[t].at = "idle"
    /\ op = "read" => fh.clock < MaxReads
    /\ worker' = [worker EXCEPT ![t] =
                      [NoWorker EXCEPT
                           !.at = IF op \in RepositoryOps THEN "repository.write"
                                  ELSE "opened_files.write",
                           !.op = op,
                           !.offset = IF op = "read" THEN offset ELSE 0,
                           !.issued = IF op = "read" THEN fh.clock + 1 ELSE 0]]
    /\ fh' = IF op = "read" THEN [fh EXCEPT !.clock = @ + 1] ELSE fh
    /\ UNCHANGED <<guard, poisoned, opened_files, WorkerIdle>>

\* self.repository.write(): a poisoned lock hands out an error, and the guard
\* inside the error is dropped at once.
LockRepository(t) ==
    /\ worker[t].at = "repository.write"
    /\ write_ready(guard, "repository")
    /\ IF "repository" \in poisoned
       THEN /\ worker' = At(t, "return", "")
            /\ UNCHANGED guard
       ELSE /\ worker' = At(t, IF worker[t].op = "statfs" THEN "get_statistics"
                               ELSE "lookup", "")
            /\ guard' = [guard EXCEPT !.repository = t]
    /\ UNCHANGED <<fh, poisoned, opened_files, WorkerIdle>>

\* A panic inside the Repository unwinds through the guards and poisons the lock.
Unwind(t) ==
    /\ worker' = [worker EXCEPT ![t] = NoWorker]
    /\ guard' = Dropped(guard, t)
    /\ poisoned' = poisoned \cup {"repository"}

\* Where each operation goes once lookup has returned the entry found: open
\* goes on to get_file for a file, readdir to list_directory for a directory,
\* every other case returns.
AfterLookupAt(op, entry) ==
    IF op = "open" /\ entry = "File" THEN "get_file"
    ELSE IF op = "readdir" /\ entry = "Directory" THEN "list_directory"
    ELSE "return"

\* repo.lookup(path) under the guard.
WorkerLookup(t) ==
    /\ worker[t].at = "lookup"
    /\ \E entry \in {"File", "Directory", "Link", "Err", "Panic"} :
           IF entry = "Panic" THEN Unwind(t)
           ELSE /\ worker' = At(t, AfterLookupAt(worker[t].op, entry), "")
                /\ UNCHANGED <<guard, poisoned>>
    /\ UNCHANGED <<fh, opened_files, WorkerIdle>>

\* repo.get_file(path) in open: the file goes into opened_files next.
WorkerGetFile(t) ==
    /\ worker[t].at = "get_file"
    /\ \E r \in {"Ok", "Err", "Panic"} :
           IF r = "Panic" THEN Unwind(t)
           ELSE /\ worker' = IF r = "Ok" THEN At(t, "opened_files.write", "")
                             ELSE At(t, "return", "")
                /\ UNCHANGED <<guard, poisoned>>
    /\ UNCHANGED <<fh, opened_files, WorkerIdle>>

\* repo.list_directory(path) in readdir.
WorkerListDirectory(t) ==
    /\ worker[t].at = "list_directory"
    /\ \E r \in {"Ok", "Err", "Panic"} :
           IF r = "Panic" THEN Unwind(t)
           ELSE /\ worker' = At(t, "return", "")
                /\ UNCHANGED <<guard, poisoned>>
    /\ UNCHANGED <<fh, opened_files, WorkerIdle>>

\* repo.get_statistics() in statfs.
WorkerGetStatistics(t) ==
    /\ worker[t].at = "get_statistics"
    /\ worker' = At(t, "return", "")
    /\ UNCHANGED <<guard, poisoned, fh, opened_files, WorkerIdle>>

\* A release that asks for the Repository's lock under the guard of
\* opened_files.
AfterOpenedFilesAt_relock(op) ==
    CASE op = "open" -> "insert"
      [] op = "read" -> "seek"
      [] op = "release" -> "repository.write"
      [] op = "destroy" -> "drain"

\* What each operation does under the guard of opened_files: open inserts
\* the file, read seeks and reads, release removes the path, destroy drains
\* the map.  None of them calls the Repository's lock from here.
AfterOpenedFilesAt(op) ==
    CASE op = "open" -> "insert"
      [] op = "read" -> "seek"
      [] op = "release" -> "remove"
      [] op = "destroy" -> "drain"

\* self.opened_files.write() in open, read, release and destroy.
LockOpenedFiles(t) ==
    /\ worker[t].at = "opened_files.write"
    /\ write_ready(guard, "opened_files")
    /\ IF "opened_files" \in poisoned
       THEN /\ worker' = At(t, "return", "Err")
            /\ UNCHANGED guard
       ELSE /\ worker' = At(t, AfterOpenedFilesAt(worker[t].op), "")
            /\ guard' = [guard EXCEPT !.opened_files = t]
    /\ UNCHANGED <<fh, poisoned, opened_files, WorkerIdle>>

\* open: insert(path, file) puts a file at position 0 in the place of the
\* one the path had.
WorkerInsert(t) ==
    /\ worker[t].at = "insert"
    /\ opened_files' = opened_files \cup {OpenPath}
    /\ fh' = [fh EXCEPT !.position = 0]
    /\ worker' = At(t, "return", "")
    /\ UNCHANGED <<guard, poisoned, WorkerIdle>>

\* read: get_mut(path), then file.seek(SeekFrom::Start(offset)).
WorkerSeek(t) ==
    /\ worker[t].at = "seek"
    /\ IF OpenPath \notin opened_files
       THEN /\ worker' = At(t, "return", "Err")
            /\ UNCHANGED fh
       ELSE /\ worker' = At(t, "read", "")
            /\ fh' = [fh EXCEPT !.position = SeekFrom_Start(@, worker[t].offset)]
    /\ UNCHANGED <<guard, poisoned, opened_files, WorkerIdle>>

\* read: file.read(&mut data) delivers the bytes from the position of the
\* file on and advances it.
WorkerRead(t) ==
    /\ worker[t].at = "read"
    /\ LET n == IF fh.position >= MaxFileSize THEN 0 ELSE 1
       IN  /\ worker' = [worker EXCEPT ![t].at = "return", ![t].kind = "Ok",
                                       ![t].start = fh.position]
           /\ fh' = [fh EXCEPT !.position = @ + n]
    /\ UNCHANGED <<guard, poisoned, opened_files, WorkerIdle>>

\* release: remove(path).
WorkerRemove(t) ==
    /\ worker[t].at = "remove"
    /\ opened_files' = opened_files \ {OpenPath}
    /\ worker' = At(t, "return", "")
    /\ UNCHANGED <<guard, poisoned, fh, WorkerIdle>>

\* destroy: f.drain() empties the map.
WorkerDrain(t) ==
    /\ worker[t].at = "drain"
    /\ opened_files' = {}
    /\ worker' = At(t, "return", "")
    /\ UNCHANGED <<guard, poisoned, fh, WorkerIdle>>

\* The handler returns: its guards are dropped.
WorkerReturn(t) ==
    /\ worker[t].at = "return"
    /\ worker' = [worker EXCEPT ![t] = NoWorker]
    /\ guard' = Dropped(guard, t)
    /\ UNCHANGED <<fh, poisoned, opened_files, WorkerIdle>>

NextWorkers ==
    \/ \E t \in Workers, op \in RepositoryOps \cup {"release", "destroy"} :
           WorkerIssue(t, op, 0)
    \/ \E t \in Workers, offset \in ReadOffsets : WorkerIssue(t, "read", offset)
    \/ \E t \in Workers : LockRepository(t)
    \/ \E t \in Workers : WorkerLookup(t)
    \/ \E t \in Workers : WorkerGetFile(t)
    \/ \E t \in Workers : WorkerListDirectory(t)
    \/ \E t \in Workers : WorkerGetStatistics(t)
    \/ \E t \in Workers : LockOpenedFiles(t)
    \/ \E t \in Workers : WorkerInsert(t)
    \/ \E t \in Workers : WorkerSeek(t)
    \/ \E t \in Workers : WorkerRead(t)
    \/ \E t \in Workers : WorkerRemove(t)
    \/ \E t \in Workers : WorkerDrain(t)
    \/ \E t \in Workers : WorkerReturn(t)

SpecWorkers == InitWorkers /\ [][NextWorkers]_vars

\* ------------------------------------------------------------- claim C28
\* C28: a thread that is inside a call of the Repository (lookup, get_file,
\* list_directory, get_statistics: the calls that read or change the resident
\* catalogs, the tag and the catalog connections) holds the write guard of
\* the Repository's lock, and in no interleaving are two threads inside the
\* Repository at the same time.
C28_RepositoryUnderExclusiveLock ==
    /\ \A t \in Workers : InRepository(t) => guard.repository = t
    /\ \A t, u \in Workers : (InRepository(t) /\ InRepository(u)) => t = u

\* One thread is inside get_file of an open while another waits for the lock.
C28_Witness ==
    \E t, u \in Workers :
        /\ worker[t].at = "get_file"
        /\ worker[u].at = "repository.write"
        /\ guard.repository = t

\* ------------------------------------------------------------- claim C29
\* The seek and the read of a read request are one step for every other
\* read: between them the thread holds the guard of opened_files and the
\* position is where its seek put it.
SeekAndReadAtomic ==
    \A t \in Workers :
        worker[t].at = "read" =>
            /\ guard.opened_files = t
            /\ fh.position = worker[t].offset
            /\ \A u \in Workers : worker[u].at \in {"seek", "read"} => u = t

\* Every read that returned bytes returned the bytes from its own offset on.
ReadStartsAtOwnOffset ==
    \A t \in Workers :
        (worker[t].op = "read" /\ worker[t].at = "return" /\ worker[t].kind = "Ok")
            => worker[t].start = worker[t].offset

\* The read has taken effect: its bytes are read and it is about to return.
TookEffect(t) ==
    worker[t].op = "read" /\ worker[t].at = "return" /\ worker[t].kind = "Ok"

\* The read is issued and has not reached its seek.
Waits(t) == worker[t].op = "read" /\ worker[t].at = "opened_files.write"

\* C29 as stated: concurrent reads of the open file are serialised, each read
\* returns bytes that start at its own offset, and the reads take effect in
\* the order in which they were issued: a read that has taken effect was
\* issued before every read that still waits.
C29_ReadsInIssueOrder ==
    /\ SeekAndReadAtomic
    /\ ReadStartsAtOwnOffset
    /\ \A t, u \in Workers :
           (TookEffect(t) /\ Waits(u)) => worker[t].issued < worker[u].issued

\* C29 amended: concurrent reads of the open file are serialised, the seek
\* and the read of each are atomic for every other read, and each read
\* returns bytes that start at its own offset; the reads take effect one at a
\* time in the order in which they get the guard of opened_files.
C29_ReadsSerialised ==
    /\ SeekAndReadAtomic
    /\ ReadStartsAtOwnOffset

\* The read issued second has read at the end of the file while the read
\* issued first, at offset 0, still waits for the guard.
C29_Witness ==
    \E t, u \in Workers :
        /\ TookEffect(t)
        /\ worker[t].offset > 0 /\ worker[t].start = worker[t].offset
        /\ Waits(u)
        /\ worker[u].offset = 0
        /\ worker[u].issued < worker[t].issued

\* ------------------------------------------------------------- claim C32
\* The thread waits in RwLock::write for a guard another thread holds.
Blocked(t) ==
    \/ worker[t].at = "repository.write" /\ ~write_ready(guard, "repository")
    \/ worker[t].at = "opened_files.write" /\ ~write_ready(guard, "opened_files")

\* C32: no interleaving of the operations deadlocks: whenever a handler is
\* running, some handler can take its next step; a thread asks for the guard
\* of opened_files holding no guard (read, release, destroy) or holding the
\* guard of the Repository (open), and no thread asks for the guard of the
\* Repository while it holds the guard of opened_files.
C32_NoDeadlock ==
    /\ (\E t \in Workers : worker[t].at # "idle")
           => \E t \in Workers : worker[t].at # "idle" /\ ~Blocked(t)
    /\ \A t \in Workers :
           /\ worker[t].at = "opened_files.write"
                  => IF worker[t].op = "open" THEN guard.repository = t
                     ELSE /\ worker[t].op \in {"read", "release", "destroy"}
                          /\ guard.repository # t
           /\ worker[t].at = "repository.write" => guard.opened_files # t
           /\ InRepository(t) => guard.opened_files # t

\* An open that holds the guard of the Repository waits for the guard of
\* opened_files, which a read holds between its seek and its read.
C32_Witness ==
    \E t, u \in Workers :
        /\ worker[t].op = "open"
        /\ worker[t].at = "opened_files.write"
        /\ guard.repository = t
        /\ guard.opened_files = u
        /\ worker[u].at = "read"

\* --------------------------------- specification: the handles of one path
\* The mount layer opens OpenPath for its clients, reads through the handles
\* that are open and releases each handle once: fh.handles counts the handles
\* that are open, at most MaxHandles of them.
MaxHandles == 2

HandleOps == {"open", "read", "release"}

InFlight(op) == {t \in Workers : worker[t].op = op}

InitHandles ==
    /\ worker = [t \in Workers |-> NoWorker]
    /\ guard = NoGuard
    /\ fh = NoHandle
    /\ poisoned = {}
    /\ opened_files = {}
    /\ fsret = NoFsRet
    /\ host = {}
    /\ needle = <<>> /\ nested = <<>> /\ found = Pending
    /\ FetchIdle
    /\ ChunkIdle
    /\ RepoIdle
    /\ RootIdle /\ BootIdle /\ TreeIdle /\ PureIdle

\* A thread of the pool takes a request of the mount layer: an open while
\* there is room for a handle, a read on a handle that is open, the release
\* of a handle that is open and has no read in flight (a read in flight
\* belongs to a handle that stays open).
HandleIssue(t, op) ==
    /\ worker[t].at = "idle"
    /\ op = "open" => fh.handles + Cardinality(InFlight("open")) < MaxHandles
    /\ op = "read" => fh.handles >= 1
    /\ op = "release" => /\ fh.handles >= 1
                         /\ fh.handles >= 2 \/ InFlight("read") = {}
    /\ worker' = [worker EXCEPT ![t] =
                      [NoWorker EXCEPT
                           !.at = IF op \in RepositoryOps THEN "repository.write"
                                  ELSE "opened_files.write",
                           !.op = op]]
    /\ fh' = IF op = "release" THEN [fh EXCEPT !.handles = @ - 1] ELSE fh
    /\ UNCHANGED <<guard, poisoned, opened_files, WorkerIdle>>

\* open: insert(path, file); the open returns Ok(0, flags) from here, and
\* the mount layer has one more handle.
HandleInsert(t) ==
    /\ worker[t].at = "insert"
    /\ opened_files' = opened_files \cup {OpenPath}
    /\ fh' = [fh EXCEPT !.position = 0, !.handles = @ + 1]
    /\ worker' = At(t, "return", "")
    /\ UNCHANGED <<guard, poisoned, WorkerIdle>>

NextHandles ==
    \/ \E t \in Workers, op \in HandleOps : HandleIssue(t, op)
    \/ \E t \in Workers : LockRepository(t)
    \/ \E t \in Workers : WorkerLookup(t)
    \/ \E t \in Workers : WorkerGetFile(t)
    \/ \E t \in Workers : LockOpenedFiles(t)
    \/ \E t \in Workers : HandleInsert(t)
    \/ \E t \in Workers : WorkerSeek(t)
    \/ \E t \in Workers : WorkerRead(t)
    \/ \E t \in Workers : WorkerRemove(t)
    \/ \E t \in Workers : WorkerReturn(t)

SpecHandles == InitHandles /\ [][NextHandles]_vars

\* ------------------------------------------------------------- claim C31
\* The read found no file at its path: get_mut(path) is None and the read
\* returns ENOENT.
ReturnsENOENT(t) ==
    /\ worker[t].op = "read"
    /\ worker[t].at = "return"
    /\ worker[t].kind = "Err"
    /\ "opened_files" \notin poisoned

\* C31: a read on a handle that is open (issued after its open returned Ok,
\* returning before its release is issued) never returns ENOENT, whatever
\* opens and releases of other handles of the path run meanwhile.
C31_ReadOnOpenHandleFindsFile ==
    \A t \in Workers : worker[t].op = "read" => /\ fh.handles >= 1
                                                /\ ~ReturnsENOENT(t)

\* ------------------------- specification: concurrent Fetcher::retrieve_file
\* The threads of the pool call retrieve_file for the same object, one from
\* Repository::get_file, another from ChunkedFile::read: the two paths share
\* no lock.  Each call is followed from one access of the cache file or of
\* the network to the next.  fs::write is File::create, which creates or
\* truncates the file, followed by write_all.
RaceBodies == {Response("ok", ZBody(ObjectName)), Response("notfound", PlainBody(<<"404">>))}

InitRace ==
    /\ worker = [t \in Workers |-> NoWorker]
    /\ guard = NoGuard
    /\ fh = NoHandle
    /\ server \in [{ObjectName} -> RaceBodies]
    /\ cache \in [{ObjectName} -> {NoFile, PlainBody(ObjectName)}]
    /\ data_dir = TRUE
    /\ ret = NoCall
    /\ succeeded = {}
    /\ host = {}
    /\ needle = <<>> /\ nested = <<>> /\ found = Pending
    /\ ChunkIdle
    /\ RepoIdle
    /\ RootIdle /\ BootIdle /\ TreeIdle /\ ShimIdle /\ PureIdle

RaceIdle == <<server, data_dir, ret, succeeded, guard, fh, host, nestedVars, chunkVars,
              repoVars, rootVars, bootVars, treeVars, shimVars, pureVars>>

\* A thread calls retrieve_file(ObjectName).
RetrieveFileCalled(t) ==
    /\ worker[t].at = "idle"
    /\ worker' = [worker EXCEPT ![t] = [NoWorker EXCEPT !.at = "cache.get",
                                                         !.op = "retrieve_file"]]
    /\ UNCHANGED <<cache, RaceIdle>>

\* retrieve_file: self.cache.get(file_name) returns the path when it exists.
RetrieveFileCacheGet(t) ==
    /\ worker[t].at = "cache.get"
    /\ worker' = IF CacheGet(cache, data_dir, ObjectName) # None
                 THEN At(t, "return", "Ok")
                 ELSE At(t, "get", "")
    /\ UNCHANGED <<cache, RaceIdle>>

\* download_content_and_decompress: the GET, and read_to_end of the zlib
\* decoder into memory; nothing is written when either fails.
RetrieveFileDownload(t) ==
    /\ worker[t].at = "get"
    /\ \E resp \in GetOutcomes(server, ObjectName) :
           worker' = IF resp.status = "neterr" \/ resp.body.enc # "zlib"
                          \/ ~resp.body.complete
                     THEN At(t, "return", "Err")
                     ELSE At(t, "File::create", "")
    /\ UNCHANGED <<cache, RaceIdle>>

\* fs::write, first half: the file exists and is empty.
RetrieveFileCreate(t) ==
    /\ worker[t].at = "File::create"
    /\ cache' = [cache EXCEPT ![ObjectName] = Truncated(PlainBody(ObjectName))]
    /\ worker' = At(t, "write_all", "")
    /\ UNCHANGED RaceIdle

\* fs::write, second half: every byte of the object is in the file.
RetrieveFileWriteAll(t) ==
    /\ worker[t].at = "write_all"
    /\ cache' = [cache EXCEPT ![ObjectName] = PlainBody(ObjectName)]
    /\ worker' = At(t, "exists", "")
    /\ UNCHANGED RaceIdle

\* retrieve_file_from_source: self.cache.get(file_name) after the write.
RetrieveFileExists(t) ==
    /\ worker[t].at = "exists"
    /\ worker' = IF CacheGet(cache, data_dir, ObjectName) # None
                 THEN At(t, "return", "Ok")
                 ELSE At(t, "return", "Err")
    /\ UNCHANGED <<cache, RaceIdle>>

\* The caller has the result and, when it is a path, opens the file.
RetrieveFileReturned(t) ==
    /\ worker[t].at = "return"
    /\ worker' = [worker EXCEPT ![t] = NoWorker]
    /\ UNCHANGED <<cache, RaceIdle>>

NextRace ==
    \/ \E t \in Workers : RetrieveFileCalled(t)
    \/ \E t \in Workers : RetrieveFileCacheGet(t)
    \/ \E t \in Workers : RetrieveFileDownload(t)
    \/ \E t \in Workers : RetrieveFileCreate(t)
    \/ \E t \in Workers : RetrieveFileWriteAll(t)
    \/ \E t \in Workers : RetrieveFileExists(t)
    \/ \E t \in Workers : RetrieveFileReturned(t)

SpecRace == InitRace /\ [][NextRace]_vars

\* ------------------------------------------------------------- claim C33
\* C33: a retrieve_file call that holds Ok(path) holds the path of a file
\* with the complete decompressed object, whatever the other calls for the
\* same name do meanwhile; and when no call is running a file that exists
\* holds the complete object.
C33_NoPartialObjectReturned ==
    /\ \A t \in Workers :
           (worker[t].at = "return" /\ worker[t].kind = "Ok")
               => cache[ObjectName] = PlainBody(ObjectName)
    /\ (\A t \in Workers : worker[t].at = "idle")
           => cache[ObjectName] \in {NoFile, PlainBody(ObjectName)}

\* ------------------------------------------------------------- split_md5
\* The bits of n, least significant first, width of them.
RECURSIVE BitsOf(_, _)
BitsOf(n, width) ==
    IF width = 0 THEN <<>> ELSE <<n % 2>> \o BitsOf(n \div 2, width - 1)

\* The number the bits are, least significant first.
RECURSIVE Unsigned(_)
Unsigned(bits) == IF bits = <<>> THEN 0 ELSE Head(bits) + 2 * Unsigned(Tail(bits))

\* md5_digest[i] as i64: an i64 is its 64 bits, least significant first; the
\* byte fills the low 8 and the rest is 0.
u8_as_i64(b) == BitsOf(b, 64)

\* x << k on an i64 (k < 64): the bits move up by k, the top k are lost.
i64_shl(x, k) == [j \in 1..64 |-> IF j <= k THEN 0 ELSE x[j - k]]

\* x | y on i64.
i64_or(x, y) == [j \in 1..64 |-> IF x[j] = 1 \/ y[j] = 1 THEN 1 ELSE 0]

\* The integer an i64 is in two's complement, as top * 2^48 + mid * 2^24 + low
\* with 0 <= mid, low < 2^24 and -2^15 <= top < 2^15: the value rusqlite
\* binds to a parameter.
i64_value(x) ==
    [top |-> Unsigned(SubSeq(x, 49, 64)) - (IF x[64] = 1 THEN 65536 ELSE 0),
     mid |-> Unsigned(SubSeq(x, 25, 48)),
     low |-> Unsigned(SubSeq(x, 1, 24))]

\* for i in from..from + 8 { acc |= (md5_digest[i] as i64) << ((i - from) * 8) }
RECURSIVE OrBytes(_, _, _, _)
OrBytes(md5_digest, from, i, acc) ==
    IF i >= from + 8 THEN acc
    ELSE OrBytes(md5_digest, from, i + 1,
                 i64_or(acc, i64_shl(u8_as_i64(md5_digest[i + 1]), (i - from) * 8)))

\* split_md5: lo from the bytes 0..8, hi from the bytes 8..16.
split_md5(md5_digest) ==
    [hash1 |-> OrBytes(md5_digest, 0, 0, u8_as_i64(0)),
     hash2 |-> OrBytes(md5_digest, 8, 8, u8_as_i64(0))]

\* md5::compute of the bytes of a path: the digests of "/", "/a", "/b",
\* "/a/x" and "/n".
md5_compute(path) ==
    CASE path = <<"/">> -> <<102, 102, 205, 118, 249, 105, 86, 70, 158, 123, 227, 157, 117, 12, 199, 217>>
      [] path = <<"/", "a">> -> <<6, 57, 118, 127, 62, 158, 170, 215, 41, 181, 64, 55, 167, 226, 171, 245>>
      [] path = <<"/", "b">> -> <<151, 170, 11, 177, 136, 181, 93, 198, 105, 39, 168, 222, 89, 65, 135, 67>>
      [] path = <<"/", "a", "/", "x">> -> <<117, 255, 158, 34, 252, 179, 79, 183, 102, 180, 41, 147, 151, 185, 134, 6>>
      [] path = <<"/", "n">> -> <<184, 82, 202, 24, 184, 103, 1, 164, 134, 0, 54, 108, 80, 188, 28, 188>>

\* The parameters find_directory_entry_split_md5 binds to FIND_MD5_PATH.
FIND_MD5_PATH_params(path_hash) ==
    [hash1 |-> i64_value(path_hash.hash1), hash2 |-> i64_value(path_hash.hash2)]

\* Catalog::find_directory_entry_md5: the parameters of the query.
find_directory_entry_md5(md5_path) == FIND_MD5_PATH_params(split_md5(md5_path))

\* Catalog::find_directory_entry: the parameters of the query.
find_directory_entry_params(h, root_path) ==
    find_directory_entry_md5(md5_compute(canonicalize_path(h, root_path)))

\* ------------------------------------------------ specification: split_md5
\* A digest that is 0 but for the byte at index k.
OneByte(k, v) == [i \in 1..16 |-> IF i = k THEN v ELSE 0]

\* The digests handed to find_directory_entry_md5: those of the paths, and
\* digests with one byte at the edges of the sign of a byte, every byte 0xff.
Md5Paths == {<<"/">>, <<"/", "a">>, <<"/", "b">>, <<"/", "a", "/", "x">>, <<"/", "n">>}

Digests ==
    {md5_compute(p) : p \in Md5Paths}
        \cup {OneByte(k, v) : k \in 1..16, v \in {1, 127, 128, 255}}
        \cup {[i \in 1..16 |-> 255]}

InitSplit ==
    /\ host \in { {}, {HostEntry(<<"/", "a">>, <<"/", "b">>)} }
    /\ \/ \E p \in Md5Paths :
              given = [f |-> "find_directory_entry", path |-> p, md5_path |-> <<>>]
       \/ \E d \in Digests :
              given = [f |-> "find_directory_entry_md5", path |-> <<>>, md5_path |-> d]
    /\ answer = NoAnswer
    /\ needle = <<>> /\ nested = <<>> /\ found = Pending
    /\ FetchIdle
    /\ ChunkIdle
    /\ RepoIdle
    /\ RootIdle /\ BootIdle /\ TreeIdle /\ ShimIdle /\ ThreadIdle

Bound(f, params) == [f |-> f, hash1 |-> params.hash1, hash2 |-> params.hash2]

FindDirectoryEntry ==
    /\ given.f = "find_directory_entry"
    /\ answer = NoAnswer
    /\ answer' = Bound(given.f, find_directory_entry_params(host, given.path))
    /\ UNCHANGED <<given, threadVars, host, nestedVars, fetchVars, chunkVars, repoVars,
                   rootVars, bootVars, treeVars, shimVars>>

FindDirectoryEntryMd5 ==
    /\ given.f = "find_directory_entry_md5"
    /\ answer = NoAnswer
    /\ answer' = Bound(given.f, find_directory_entry_md5(given.md5_path))
    /\ UNCHANGED <<given, threadVars, host, nestedVars, fetchVars, chunkVars, repoVars,
                   rootVars, bootVars, treeVars, shimVars>>

NextSplit == FindDirectoryEntry \/ FindDirectoryEntryMd5

SpecSplit == InitSplit /\ [][NextSplit]_vars

\* ------------------------------------------------------------- claim C30
\* The bytes from + 1 .. from + 8 of the digest read as a little-endian
\* two's-complement integer, in the limbs of i64_value.
LittleEndian(d, from) ==
    [top |-> d[from + 7] + 256 * d[from + 8] - (IF d[from + 8] >= 128 THEN 65536 ELSE 0),
     mid |-> d[from + 4] + 256 * d[from + 5] + 65536 * d[from + 6],
     low |-> d[from + 1] + 256 * d[from + 2] + 65536 * d[from + 3]]

SplitKey(d) == [hash1 |-> LittleEndian(d, 0), hash2 |-> LittleEndian(d, 8)]

\* C30: split_md5 maps the bytes 0..8 of the digest to hash1 and the bytes
\* 8..16 to hash2 as little-endian two's-complement 64-bit integers (a half
\* whose last byte is >= 0x80 is negative), and a lookup by path binds the
\* pair split_md5(md5(path)), the pair a lookup by the precomputed key of that
\* path binds.
C30_SplitKeyOfPath ==
    /\ answer.f = "find_directory_entry_md5" =>
           /\ answer.hash1 = LittleEndian(given.md5_path, 0)
           /\ answer.hash2 = LittleEndian(given.md5_path, 8)
           /\ given.md5_path[8] >= 128 <=> answer.hash1.top < 0
           /\ given.md5_path[16] >= 128 <=> answer.hash2.top < 0
    /\ answer.f = "find_directory_entry" =>
           /\ answer.hash1 = SplitKey(md5_compute(given.path)).hash1
           /\ answer.hash2 = SplitKey(md5_compute(given.path)).hash2

\* ------------------------------------------------------------- claim C36
\* C36: a lookup(p) that asks a catalog binds the (hash1, hash2) key it
\* would bind on a host that has nothing at p, and when it returns an entry,
\* the entry and the catalog that answers are those a lookup(p) returns on
\* such a host.
C36_LookupIgnoresHost ==
    out.op = "lookup" =>
        LET elsewhere == [World([n \in ListNames |-> NoFile], [up |-> TRUE, w |-> "ok"])
                             EXCEPT !.host = {}]
            there == Repository_lookup(<<>>, elsewhere, tag, out.arg)
        IN  /\ (out.arg # PRoot /\ out.catalog # <<>>)
                   => find_directory_entry_params(host, out.arg)
                          = find_directory_entry_params({}, out.arg)
            /\ out.kind = "Ok"
                   => /\ there.kind = "Ok"
                      /\ out.entry = there.entry
                      /\ out.catalog = there.catalog.hash

\* ------------------------------------------------- specification: Cache
HexNames == {Hex2(i) : i \in 0..LastFolder}

\* The objects the Fetcher may have stored: <<directory, file name>>.
CacheObjects == {<<Hex2(0), "x">>, <<Hex2(LastFolder), "y">>}

\* Names directly under data that a catalog of directories may be missing or
\* that are in its way: a stray directory, a stray file, a file where the
\* folder 0a belongs.
StrayNames == {<<"t", "m", "p">>, Hex2(10)}

EntriesFrom(dirs, strays, objects) ==
    [n \in dirs \cup strays |->
        IF n \in strays THEN RegularFile
        ELSE DirWith({o[2] : o \in {p \in objects : p[1] = n}})]

\* The states a cache root can be found in: no data, data a regular file, or
\* data a directory with none, some or all of the folders, with objects in
\* the folders that exist and stray files beside them.
InitCache ==
    /\ \/ tree = Tree("absent", <<>>)
       \/ tree = Tree("file", <<>>)
       \/ \E dirs \in {{}, {Hex2(0)}, HexNames \ {Hex2(LastFolder)}, HexNames \ {Hex2(10)},
                       HexNames},
             strays \in SUBSET StrayNames, objects \in SUBSET CacheObjects :
              /\ strays \cap dirs = {}
              /\ \A o \in objects : o[1] \in dirs
              /\ tree = Tree("dir", EntriesFrom(dirs, strays, objects))
    /\ cres = NoCres
    /\ host = {}
    /\ needle = <<>> /\ nested = <<>> /\ found = Pending
    /\ FetchIdle
    /\ ChunkIdle
    /\ RepoIdle
    /\ RootIdle /\ BootIdle /\ ShimIdle /\ PureIdle /\ ThreadIdle

CacheCall(op, r) == [op |-> op, ok |-> r.ok, before |-> tree]

\* Cache::initialize.
Initialize ==
    /\ tree' = Cache_initialize(tree).tree
    /\ cres' = CacheCall("initialize", Cache_initialize(tree))
    /\ UNCHANGED <<host, nestedVars, fetchVars, chunkVars, repoVars, rootVars, pureVars,
                   threadVars, bootVars,
                   shimVars>>

\* Cache::evict.
Evict ==
    /\ tree' = Cache_evict(tree).tree
    /\ cres' = CacheCall("evict", Cache_evict(tree))
    /\ UNCHANGED <<host, nestedVars, fetchVars, chunkVars, repoVars, rootVars, pureVars,
                   threadVars, bootVars,
                   shimVars>>

\* The Fetcher writes an object to the path Cache::add gives: fs::write
\* needs the folder to exist.
Store(object) ==
    /\ tree.data = "dir"
    /\ object[1] \in DOMAIN tree.entries
    /\ tree.entries[object[1]].kind = "dir"
    /\ tree' = Tree("dir", [tree.entries EXCEPT
                               ![object[1]] = DirWith(@.files \cup {object[2]})])
    /\ cres' = [op |-> "store", ok |-> TRUE, before |-> tree]
    /\ UNCHANGED <<host, nestedVars, fetchVars, chunkVars, repoVars, rootVars, pureVars,
                   threadVars, bootVars,
                   shimVars>>

NextCache ==
    \/ Initialize
    \/ Evict
    \/ \E object \in CacheObjects : Store(object)

SpecCache == InitCache /\ [][NextCache]_vars

\* The tree Cache::initialize makes of an empty root.
FreshTree == Tree("dir", [n \in HexNames |-> DirWith({})])

\* ------------------------------------------------------------- claim C16
\* C16: after evict() returned Ok, whatever the tree was before, data exists
\* and holds exactly the 256 empty directories 00..ff, and get(name) is
\* absent for every object name under data.
C16_EvictLeavesFreshTree ==
    (cres.op = "evict" /\ cres.ok)
        => /\ tree = FreshTree
           /\ \A o \in CacheObjects : ~Cache_get(tree, o[1], o[2])

\* ------------------------------------------------------------- claim C17
\* C17: initialize on a root without data makes data hold exactly the 256
\* empty directories named by two lowercase hex digits; initialize on a tree
\* that has these directories returns Ok and leaves the tree, with the
\* objects cached in it, as it was.
C17_InitializeIdempotent ==
    cres.op = "initialize"
        => /\ cres.before.data = "absent"
                  => /\ cres.ok
                     /\ tree.data = "dir"
                     /\ DOMAIN tree.entries = HexNames
                     /\ \A n \in HexNames : tree.entries[n] = DirWith({})
                     /\ \A n \in DOMAIN tree.entries :
                            /\ Len(n) = 2
                            /\ \A i \in 1..2 : \E k \in 1..16 : n[i] = HexDigits[k]
           /\ (/\ cres.before.data = "dir"
               /\ \A n \in HexNames : /\ n \in DOMAIN cres.before.entries
                                      /\ cres.before.entries[n].kind = "dir")
                  => cres.ok /\ tree = cres.before

\* A second initialize on a tree that the first had made and in which
\* objects have been stored since.
C17_Witness ==
    /\ cres.op = "initialize"
    /\ cres.ok
    /\ DOMAIN cres.before.entries = HexNames
    /\ cres.before.entries[Hex2(0)].files = {"x"}
    /\ cres.before.entries[Hex2(LastFolder)].files = {"y"}
    /\ tree = cres.before

\* -------------------------------------------------- specification: RootFile
FileChars == {"\n", "-", "N", "E"}

\* The body of a root file.
Bodies == SeqsUpTo(FileChars, MaxBodyLen)

\* What follows the body: nothing, or a terminator line and what follows it:
\* the checksum of this body or of another one, the line complete, without
\* its newline, cut short, followed by a signature, or ending in a character
\* of two bytes.
Tails(body) ==
    {<<>>} \cup
    {term \o sum : term \in {<<"-", "-", "\n">>, <<"-", "-", "N", "\n">>, <<"-", "-">>},
                   sum \in {Sha1Hex(body) \o <<"\n">>,
                            Sha1Hex(<<"N">> \o body) \o <<"\n">>,
                            Sha1Hex(body),
                            Sha1Hex(body) \o <<"N">>,
                            Sha1Hex(body) \o <<"\n", "N", "\n">>,
                            SubSeq(Sha1Hex(body), 1, ChecksumLen - 1) \o <<"E">>,
                            <<>>}}

InitRootFile ==
    /\ \E body \in Bodies : \E tail \in Tails(body) : file = body \o tail
    /\ root_file = NoRootFile
    /\ host = {}
    /\ needle = <<>> /\ nested = <<>> /\ found = Pending
    /\ FetchIdle
    /\ ChunkIdle
    /\ RepoIdle
    /\ BootIdle /\ TreeIdle /\ ShimIdle /\ PureIdle /\ ThreadIdle

ParseRootFile ==
    /\ root_file' = RootFile_new(file)
    /\ UNCHANGED <<file, host, nestedVars, fetchVars, chunkVars, repoVars, bootVars,
                   treeVars, shimVars, pureVars, threadVars>>

NextRootFile == ParseRootFile

SpecRootFile == InitRootFile /\ [][NextRootFile]_vars

\* ------------------------------------------------------------- claim C20
RECURSIVE Lines(_)
\* The lines of a file, each with its newline.
Lines(bytes) ==
    IF bytes = <<>> THEN <<>>
    ELSE <<ReadLine(bytes)>> \o Lines(SubSeq(bytes, Len(ReadLine(bytes)) + 1, Len(bytes)))

IsTerminator(line) == Len(line) >= 2 /\ SubSeq(line, 1, 2) = <<"-", "-">>

RECURSIVE Concat(_)
Concat(lines) == IF lines = <<>> THEN <<>> ELSE Head(lines) \o Concat(Tail(lines))

\* C20: a root file whose body B is followed by a terminator line and a
\* checksum line of 41 bytes parses iff SHA-1(B) is the first 40 characters
\* of that line, B being the bytes of the lines before the terminator, and
\* yields InvalidRootFileSignature otherwise; a file without a terminator
\* parses with has_signature() false.
C20_ChecksumDecidesParse ==
    root_file.kind # "none" =>
        LET lines == Lines(file)
            terms == {i \in 1..Len(lines) : IsTerminator(lines[i])}
            t == CHOOSE i \in terms : \A j \in terms : i <= j
            B == Concat(SubSeq(lines, 1, t - 1))
        IN  IF terms = {}
            THEN /\ root_file.kind = "Ok"
                 /\ ~has_signature(root_file)
                 /\ root_file.contents = file
            ELSE (t < Len(lines) /\ StrByteLen(lines[t + 1]) = ChecksumLineLen)
                     => IF Sha1Hex(B) = SubSeq(lines[t + 1], 1, ChecksumLen)
                        THEN /\ root_file.kind = "Ok"
                             /\ has_signature(root_file)
                             /\ root_file.contents = B
                        ELSE root_file.kind = "InvalidRootFileSignature"

\* ------------------------------------------------------------- claim C21
\* C21: a root file whose terminator line is followed by a checksum line of
\* fewer than 41 bytes, the end of the file right after the terminator
\* included, returns IncompleteRootFileSignature.
C21_ShortChecksumIsIncomplete ==
    root_file.kind # "none" =>
        LET lines == Lines(file)
            terms == {i \in 1..Len(lines) : IsTerminator(lines[i])}
            t == CHOOSE i \in terms : \A j \in terms : i <= j
        IN  (/\ terms # {}
             /\ t = Len(lines) \/ StrByteLen(lines[t + 1]) < ChecksumLineLen)
                => root_file.kind = "IncompleteRootFileSignature"

\* ------------------------------------------------------------- claim C37
\* C37: RootFile::new returns Ok or an error for every file and never
\* aborts; when it returns Ok the body is the lines before the first line
\* that begins with "--", an empty line or a line of a single byte included.
C37_ParseNeverAborts ==
    root_file.kind # "none" =>
        LET lines == Lines(file)
            terms == {i \in 1..Len(lines) : IsTerminator(lines[i])}
            t == CHOOSE i \in terms : \A j \in terms : i <= j
        IN  /\ root_file.kind # "Panic"
            /\ root_file.kind = "Ok"
                   => root_file.contents =
                          IF terms = {} THEN file ELSE Concat(SubSeq(lines, 1, t - 1))

\* -------------------------------------------- specification: Repository::new
\* The lines a manifest is made of.  The root catalog is aa0, the history
\* database hh0.
LineC == <<"C">> \o HRoot

LineH == <<"H">> \o HistoryHash

LineN(name) == <<"N", name>>

LineS(revision) == <<"S", revision>>

RECURSIVE TextOf(_)
TextOf(lines) ==
    IF lines = <<>> THEN <<>> ELSE Head(lines) \o <<"\n">> \o TextOf(Tail(lines))

\* Manifests: complete ones under two names, one without a history database,
\* one whose revision the history does not hold, and malformed ones (a
\* revision that is no number, a boolean that is neither yes nor no, a line
\* that begins with a two-byte character, a history hash of one character).
ManifestBodies ==
    {TextOf(<<LineC, LineS("1"), LineN(n), LineH>>) : n \in {"r", "q"}}
        \cup {TextOf(<<LineC, LineS("1"), LineN("r"), LineH, <<"G", "y", "e", "s">>>>),
              TextOf(<<LineC, LineS("1"), LineN("r")>>),
              TextOf(<<LineC, LineS("3"), LineN("r"), LineH>>),
              TextOf(<<LineC, LineS("x"), LineN("r"), LineH>>),
              TextOf(<<LineC, LineS("1"), LineN("r"), LineH, <<"G", "x">>>>),
              TextOf(<<<<"E", "r">>, LineC, LineS("1"), LineN("r"), LineH>>),
              TextOf(<<LineC, LineS("1"), LineN("r"), <<"H", "h">>>>)}

\* What the server holds as .cvmfspublished: a manifest unsigned, signed, or
\* signed with the digest of another text.
ManifestFiles ==
    ManifestBodies
        \cup UNION {{b \o <<"-", "-", "\n">> \o Sha1Hex(d) \o <<"\n">> : d \in {b, <<"N">>}} :
                       b \in {TextOf(<<LineC, LineS("1"), LineN("r"), LineH>>),
                              TextOf(<<LineC, LineS("1"), LineN("r")>>)}}

\* The history database: its properties' schema and its tags table.
HistoryImages ==
    {[kind |-> "history", schema |-> <<"1", ".", "0">>, tags |-> 1 :> HRoot],
     [kind |-> "history", schema |-> <<"1", ".", "0">>, tags |-> (1 :> HRoot) @@ (3 :> H1)],
     [kind |-> "history", schema |-> <<"2", ".", "0">>, tags |-> 1 :> HRoot],
     [kind |-> "garbage", schema |-> <<>>, tags |-> <<>>]}

NewNames ==
    {MANIFEST_NAME, LAST_REPLICATION_NAME, REPLICATING_NAME, HistoryName}
        \cup {compose_object_path(h, CATALOG_ROOT_PREFIX) : h \in {HRoot, H1}}

\* A Fetcher over an initialized, empty cache and a server that holds a
\* manifest, a history database, catalogs and perhaps the replication files.
InitNew ==
    /\ host = {}
    /\ \E mf \in ManifestFiles, hist \in HistoryImages, v \in {"good", "garbage"},
          zipped \in BOOLEAN, snapshot \in BOOLEAN :
           /\ images = (HistoryHash :> hist)
                          @@ [h \in {HRoot, H1} |-> ImageOf(h, Variant(v, <<>>))]
           /\ server = [n \in NewNames |->
                           IF n = MANIFEST_NAME THEN Response("ok", PlainBody(mf))
                           ELSE IF n \in {LAST_REPLICATION_NAME, REPLICATING_NAME}
                           THEN IF snapshot THEN Response("ok", PlainBody(<<"d">>))
                                ELSE Response("404", PlainBody(<<"4", "0", "4">>))
                           ELSE IF n = HistoryName
                           THEN IF zipped THEN Response("ok", ZBody(HistoryHash))
                                ELSE Response("ok", PlainBody(HistoryHash))
                           ELSE IF n = compose_object_path(HRoot, CATALOG_ROOT_PREFIX)
                           THEN Response("ok", ZBody(HRoot))
                           ELSE Response("ok", ZBody(H1))]
    /\ cache = [n \in NewNames |-> NoFile]
    /\ data_dir = TRUE
    /\ ret = NoCall
    /\ succeeded = {}
    /\ opened_catalogs = <<>>
    /\ tag = NoTag
    /\ call = NoRepoCall
    /\ out = NoOut
    /\ rcs = <<>>
    /\ manifest = NoManifest
    /\ fqrn = <<>>
    /\ built = NoBuilt
    /\ needle = <<>> /\ nested = <<>> /\ found = Pending
    /\ ChunkIdle
    /\ RootIdle /\ TreeIdle /\ ShimIdle /\ PureIdle /\ ThreadIdle

\* Repository::new(fetcher).  When it does not return Ok there is no
\* Repository; what the calls wrote to the cache stays.
New ==
    /\ built.kind = "none"
    /\ \E net \in NetChoices :
           LET r == Repository_new(World(cache, net))
           IN  /\ built' = [kind |-> r.kind, err |-> r.err, gets |-> r.gets]
               /\ manifest' = r.manifest
               /\ fqrn' = r.fqrn
               /\ opened_catalogs' = r.opened
               /\ tag' = r.tag
               /\ cache' = r.cache
    /\ UNCHANGED <<call, out, rcs, host, server, images, data_dir, ret, succeeded,
                   nestedVars, chunkVars, rootVars, pureVars, threadVars, treeVars, shimVars>>

\* Repository::retrieve_current_root_catalog on the constructed Repository.
RetrieveCurrentRootCatalog ==
    /\ built.kind = "Ok"
    /\ \E net \in NetChoices :
           LET rc == retrieve_current_root_catalog(opened_catalogs, World(cache, net), tag)
           IN  /\ out' = [NoOut EXCEPT !.op = "retrieve_current_root_catalog",
                                       !.kind = IF rc.ok THEN "Ok" ELSE "Err",
                                       !.err = rc.err, !.catalog = rc.catalog.hash,
                                       !.gets = rc.gets]
               /\ opened_catalogs' = rc.opened
               /\ cache' = rc.cache
               /\ rcs' = <<rc>>
    /\ UNCHANGED <<call, tag, host, server, images, data_dir, ret, succeeded,
                   nestedVars, chunkVars, rootVars, pureVars, threadVars, bootVars, treeVars,
                   shimVars>>

NextNew ==
    \/ New
    \/ RetrieveCurrentRootCatalog

SpecNew == InitNew /\ [][NextNew]_vars

\* ------------------------------------------------------------- claim C11
\* C11 as stated: right after Repository::new returned Ok the resident map is
\* empty and fqrn is the manifest's repository name, and a following
\* retrieve_current_root_catalog() returns Ok and makes the root hash of the
\* current tag resident.
C11_RootCatalogCallSucceeds ==
    /\ (built.kind = "Ok" /\ out.op = "none")
           => opened_catalogs = <<>> /\ fqrn = manifest.repository_name
    /\ out.op = "retrieve_current_root_catalog"
           => out.kind = "Ok" /\ tag.hash \in DOMAIN opened_catalogs

\* C11, amended: right after Repository::new returned Ok the resident map is
\* empty and fqrn is the manifest's repository name; catalogs become resident
\* only by a call that asks for them: retrieve_current_root_catalog() makes
\* the root hash of the current tag resident when it returns Ok and leaves
\* the map as it was when it returns an error.
C11_EmptyMapThenRootOnDemand ==
    /\ (built.kind = "Ok" /\ out.op = "none")
           => opened_catalogs = <<>> /\ fqrn = manifest.repository_name
    /\ out.op = "none" => opened_catalogs = <<>>
    /\ out.op = "retrieve_current_root_catalog"
           => IF out.kind = "Ok"
              THEN /\ tag.hash \in DOMAIN opened_catalogs
                   /\ out.catalog = tag.hash
                   /\ DOMAIN opened_catalogs = DOMAIN rcs[1].before \cup {tag.hash}
              ELSE opened_catalogs = rcs[1].before

\* Repository::new returned Ok, the map was empty, and the first
\* retrieve_current_root_catalog() made the root hash resident.
C11_Witness ==
    /\ built.kind = "Ok"
    /\ fqrn = <<"q">>
    /\ out.op = "retrieve_current_root_catalog"
    /\ out.kind = "Ok"
    /\ rcs[1].before = <<>>
    /\ DOMAIN opened_catalogs = {tag.hash}

\* ------------------------------------------------------------- claim C12
\* The manifest the server holds, as read_manifest parses it.
ServedManifest ==
    LET parsed == RootFile_new(server[MANIFEST_NAME].body.data)
    IN  IF parsed.kind # "Ok" THEN ManifestResult(parsed.kind, "", DefaultManifest)
        ELSE Manifest_new(parsed.contents)

\* C12: once Repository::new has read and parsed the manifest, if the
\* manifest names a history database and new returns Ok, the current tag is
\* the history's tag of manifest.revision; if the manifest names no history
\* database, new returns Ok and the current tag is made of the manifest's
\* root catalog hash and revision.
C12_TagAtConstruction ==
    (/\ built.kind # "none"
     /\ built.gets # <<>>
     /\ built.gets[1].resp.status = "ok"
     /\ ServedManifest.kind = "Ok")
        => LET m == ServedManifest.manifest
           IN  IF has_history(m)
               THEN built.kind = "Ok"
                        => tag = [revision |-> m.revision,
                                  hash |-> images[m.history_database.value].tags[m.revision]]
               ELSE /\ built.kind = "Ok"
                    /\ tag = [revision |-> m.revision, hash |-> m.root_catalog]

\* ------------------------------------------------------------- claim C22
\* The lines of the manifest the server holds.
ServedLines == SplitNl(server[MANIFEST_NAME].body.data, <<>>)

\* C22: when the value of key G or A is neither "yes" nor "no", the
\* construction of the manifest returns a parse error as an Err value and
\* does not abort; "yes" sets the flag and "no" clears it.
C22_BadBooleanIsParseError ==
    (/\ built.kind # "none"
     /\ built.gets # <<>>
     /\ built.gets[1].resp.status = "ok")
        => \A i \in 1..Len(ServedLines) :
               LET line == ServedLines[i]
                   flag == IF Head(line) = "G" THEN manifest.garbage_collectable
                           ELSE manifest.allows_alternative_name
               IN  (line # <<>> /\ Head(line) \in {"G", "A"})
                       => IF Tail(line) = <<"y", "e", "s">> THEN built.kind = "Ok" => flag
                          ELSE IF Tail(line) = <<"n", "o">>
                               THEN built.kind = "Ok" => ~flag
                               ELSE built.kind = "Err" /\ built.err = "ParseError"

\* ------------------------------------- specification: nested-reference search
Paths == SeqsUpTo(Chars, MaxPathLen)

RootPaths == SeqsUpTo(Chars, MaxRootLen)

NestedRefs == {CatalogReference(r, h) : r \in RootPaths, h \in {H1, H2}}

InitNested ==
    /\ host \in HostStates
    /\ needle \in Paths
    /\ nested \in SeqsUpTo(NestedRefs, MaxNested)
    /\ found = Pending
    /\ FetchIdle
    /\ ChunkIdle
    /\ RepoIdle
    /\ RestIdle

\* One call of Catalog::find_nested_for_path(needle).
FindNested ==
    /\ found = Pending
    /\ found' = find_nested_for_path(nested, needle, host)
    /\ UNCHANGED <<host, needle, nested>>
    /\ UNCHANGED <<fetchVars, chunkVars, repoVars, restVars>>

NextNested == FindNested

SpecNested == InitNested /\ [][NextNested]_vars

\* ------------------------------------------------------------- claim C1
IsStrPrefix(r, p) == Len(r) <= Len(p) /\ SubSeq(p, 1, Len(r)) = r

\* r is a sanitised prefix of p: a prefix that ends where p ends or where p
\* has a '/'.
SanitisedPrefix(r, p) ==
    IsStrPrefix(r, p) /\ (Len(p) = Len(r) \/ p[Len(r) + 1] = "/")

Candidates(refs, p) == {i \in 1..Len(refs) : SanitisedPrefix(refs[i].root_path, p)}

\* C1: find_nested_for_path(p) returns the reference with the longest
\* root_path that is a sanitised prefix of p, and None exactly when the
\* table holds no such reference.
C1_LongestSanitisedPrefix ==
    found # Pending =>
        IF Candidates(nested, needle) = {}
        THEN found.kind = "None"
        ELSE /\ found.kind = "Some"
             /\ SanitisedPrefix(found.ref.root_path, needle)
             /\ \A i \in Candidates(nested, needle) :
                    Len(nested[i].root_path) <= Len(found.ref.root_path)
====
